---- MODULE Spec2Model ----
(***************************************************************************)
(* News ingestion pipeline of news/tasks.py: the Celery task               *)
(* fetch_and_process_news (cache short-circuit, provider fallback chain,   *)
(* retry handling), _process_articles (fingerprinting, in-batch            *)
(* deduplication, enrichment, update_or_create) and the helpers they call. *)
(*                                                                         *)
(* Time is in seconds since the epoch; parsed publish times are kept in    *)
(* milliseconds, the resolution the integer branch of _parse_date needs.   *)
(* A title is a sequence of one-character strings.  The SHA-256 digest of  *)
(* "<title>_<rounded>" is represented by the pair <<title, rounded>>.      *)
(***************************************************************************)
EXTENDS Integers, Sequences, FiniteSets, Bags, TLC

\* ------------------------------------------------------------------------
\* Program constants
\* ------------------------------------------------------------------------

MAX_ARTICLES == 100

max_retries == 2

MIN_TEXT_LENGTH == 25

SUMMARY_MAX == 500

CACHE_HOURS == 24

RETRY_COUNTDOWN_429 == 60

RETRY_COUNTDOWN_FAILURE == 300

DEFAULT_RELIABILITY == 50

\* confidence and sentiment scores are kept in hundredths: 50 is 0.5
DEFAULT_CONFIDENCE == 50

\* datetime.fromtimestamp raises ValueError beyond year 9999; the limit
\* (253402300799 s) is kept in units of 1000 s.
MAX_TIMESTAMP_KS == 253402300

HourMs == 3600 * 1000

NULL == [kind |-> "null"]

\* a text of which only the length matters
Text(n) == [kind |-> "text", len |-> n]

\* ------------------------------------------------------------------------
\* normalize_title
\* ------------------------------------------------------------------------

WhitespaceChars == {" ", "\t"}

WordChars == {"a", "b", "d", "i", "m", "n", "p", "u", "A", "B", "I", "M", "U", "_", "1"}

Lower(c) ==
    CASE c = "A" -> "a"
      [] c = "B" -> "b"
      [] c = "I" -> "i"
      [] c = "M" -> "m"
      [] c = "U" -> "u"
      [] OTHER -> c

IsSpace(c) == c \in WhitespaceChars

RECURSIVE LStrip(_)
LStrip(s) ==
    IF s = << >> THEN << >>
    ELSE IF IsSpace(Head(s)) THEN LStrip(Tail(s)) ELSE s

RECURSIVE RStrip(_)
RStrip(s) ==
    IF s = << >> THEN << >>
    ELSE IF IsSpace(s[Len(s)]) THEN RStrip(SubSeq(s, 1, Len(s) - 1)) ELSE s

Strip(s) == RStrip(LStrip(s))

LowerAll(s) == [i \in 1..Len(s) |-> Lower(s[i])]

\* re.sub(r'\s+', ' ', s): every maximal run of whitespace becomes one space
RECURSIVE CollapseSpaces(_)
CollapseSpaces(s) ==
    IF s = << >> THEN << >>
    ELSE IF IsSpace(Head(s))
         THEN << " " >> \o CollapseSpaces(LStrip(Tail(s)))
         ELSE << Head(s) >> \o CollapseSpaces(Tail(s))

\* re.sub(r'[^\w\s]', '', s)
StripPunctuation(s) == SelectSeq(s, LAMBDA c : c \in WordChars \/ IsSpace(c))

normalize_title(title) ==
    IF title = << >> THEN << >>
    ELSE StripPunctuation(CollapseSpaces(LowerAll(Strip(title))))

\* ------------------------------------------------------------------------
\* get_source_reliability
\* ------------------------------------------------------------------------

SourceLower(src) ==
    CASE src = "Reuters" -> "reuters"
      [] src = "Bloomberg" -> "bloomberg"
      [] OTHER -> src

get_source_reliability(src) ==
    CASE SourceLower(src) = "financial times" -> 90
      [] SourceLower(src) = "bloomberg" -> 95
      [] SourceLower(src) = "reuters" -> 85
      [] SourceLower(src) = "yahoo finance" -> 80
      [] OTHER -> DEFAULT_RELIABILITY

\* ------------------------------------------------------------------------
\* _parse_date
\* ------------------------------------------------------------------------

IntDate(v) == [kind |-> "int", v |-> v]

\* A date string: its layout, the broken-down wall-clock time it spells and
\* whether it carries a UTC offset.
StrDate(fmt, d, h, m, s, off) ==
    [kind |-> "str", fmt |-> fmt, d |-> d, h |-> h, m |-> m, s |-> s, off |-> off]

StrptimeFormats == {"%Y%m%dT%H%M%S", "%Y-%m-%dT%H:%M:%SZ", "%Y-%m-%d %H:%M:%S",
                    "%a, %d %b %Y %H:%M:%S %Z"}

DateutilFormats == {"iso8601"}

Truthy(v) ==
    CASE v.kind = "null" -> FALSE
      [] v.kind = "int" -> v.v # 0
      [] OTHER -> TRUE

\* article.get('time_published') or article.get('datetime') or ...
DateValue(article) ==
    IF Truthy(article.time_published) THEN article.time_published
    ELSE IF Truthy(article.datetime) THEN article.datetime
    ELSE IF Truthy(article.date) THEN article.date
    ELSE article.pubDate

WallClockMs(v) == (((v.d * 24 + v.h) * 60 + v.m) * 60 + v.s) * 1000

\* The parsed publish time in milliseconds, or NULL.
ParseDateValue(v) ==
    IF ~Truthy(v) THEN NULL
    ELSE IF v.kind = "int"
         THEN IF (v.v \div 1000) \div 1000 > MAX_TIMESTAMP_KS
              THEN [kind |-> "time", ms |-> v.v * 1000]
              ELSE [kind |-> "time", ms |-> v.v]
    ELSE IF v.fmt \in StrptimeFormats
         THEN [kind |-> "time", ms |-> WallClockMs(v)]
    ELSE IF v.fmt \in DateutilFormats
         THEN IF v.off THEN NULL    \* make_aware raises on an aware datetime
              ELSE [kind |-> "time", ms |-> WallClockMs(v)]
    ELSE NULL

_parse_date(article) == ParseDateValue(DateValue(article))

\* ------------------------------------------------------------------------
\* Fingerprint
\* ------------------------------------------------------------------------

\* int(x / n): the fraction cut off instead of rounded
RoundHalfEven_truncated(x, n) == x \div n

\* Python round(x / n) for x >= 0: ties go to the even neighbour
RoundHalfEven(x, n) ==
    LET q == x \div n
        r == x % n
    IN  IF 2 * r < n THEN q
        ELSE IF 2 * r > n THEN q + 1
        ELSE IF q % 2 = 0 THEN q ELSE q + 1

\* round(published_at.timestamp() / 60) * 60
rounded_timestamp(ms) == RoundHalfEven(ms, 60000) * 60

RawTitle(article) ==
    IF article.title # << >> THEN article.title
    ELSE IF article.headline # << >> THEN article.headline
    ELSE article.description

\* the hash taken over the title alone, as ProcessedNews.save() does
title_hash_title_only(title, ms) == << title, 0 >>

title_hash(title, ms) == << title, rounded_timestamp(ms) >>

\* title and date both usable (the two `continue` guards of either phase)
Hashable(article) ==
    /\ normalize_title(RawTitle(article)) # << >>
    /\ _parse_date(article) # NULL

ArticleHash(article) ==
    title_hash(normalize_title(RawTitle(article)), _parse_date(article).ms)

\* ------------------------------------------------------------------------
\* Bounds and the inputs the environment can supply
\* ------------------------------------------------------------------------

MaxRequests == 2

MaxBatch == 2

\* texts in one analyze_batch call
MaxTexts == 3

\* out-of-memory retries within one analyze_batch call: enough for the
\* batch size to go from 8 to 1 and fail there once more
MaxOom == 4

\* how far the clock of the rate limiter runs, in half minutes
MaxHalfMinutes == 3

\* calls a caller of the rate limiter gets accepted at one reading of the
\* clock: three readings stay below RATE_LIMIT_MAX_REQUESTS
MaxPerInstant == 33

Workers == {"w1", "w2"}

Symbols == {"IBM", "AAPL"}

\* the provider list with its first two entries exchanged
Providers_swapped == << "finnhub", "alphavantage", "yahoo" >>

Providers == << "alphavantage", "finnhub", "yahoo" >>

\* The instants at which the model observes the clock: day 2, 12:00:00 and
\* a little more than a day later
T0 == (2 * 24 + 12) * 3600

Instants == {T0, T0 + 86400 + 300}

\* a banner image address
Url == [kind |-> "url"]

\* What is in the news: a story has a headline, a publish instant (broken
\* down as day, hour, minute, second), a summary, a source, the answer
\* FinBERT gives for its text and a banner image.
Story(title, d, h, m, sec, summary, source, label, score) ==
    [title |-> title, d |-> d, h |-> h, m |-> m, s |-> sec, summary |-> summary,
     source |-> source, finbert |-> [label |-> label, score |-> score],
     banner |-> Url]

\* "IBM up", published day 2 11:59:30
StoryUp ==
    Story(<< "I", "B", "M", " ", "u", "p" >>, 2, 11, 59, 30, Text(30), "Reuters",
          "Positive", 90)

\* the same headline and instant from another desk, typed differently
StoryUpAgain ==
    Story(<< " ", "i", "b", "m", " ", " ", "U", "p", "!" >>, 2, 11, 59, 30, Text(30),
          "Bloomberg", "Positive", 90)

\* an older story (day 0 01:00:00) with no summary
StoryOld ==
    Story(<< "I", "B", "M", " ", "d", "n" >>, 0, 1, 0, 0, Text(0), "",
          "Negative", 80)

\* a headline of punctuation only: nothing is left after normalisation
StoryNoTitle ==
    Story(<< "!" >>, 2, 11, 59, 30, Text(30), "Reuters", "Neutral", 60)

\* a recent story whose summary is JSON null
StoryNullSummary ==
    Story(<< "I", "B", "M", " ", "d", "n" >>, 2, 11, 0, 0, NULL, "Bloomberg",
          "Negative", 80)

\* "IBM dip", a recent story whose banner image is JSON null
StoryNullBanner ==
    [Story(<< "I", "B", "M", " ", "d", "i", "p" >>, 2, 11, 30, 0, Text(30), "Reuters",
           "Negative", 70) EXCEPT !.banner = NULL]

\* StoryUp as a provider lists it a second time, with a JSON null summary
StoryUpNullSummary ==
    Story(<< "I", "B", "M", " ", "u", "p" >>, 2, 11, 59, 30, NULL, "Reuters",
          "Positive", 90)

Stories == {StoryUp, StoryOld, StoryNoTitle, StoryNullSummary}

\* "IBM dn" reported `sec` seconds after day 0 01:00:00
Stamp(sec) ==
    Story(<< "I", "B", "M", " ", "d", "n" >>, 0, 1, sec \div 60, sec % 60, Text(30),
          "Reuters", "Negative", 80)

\* report times on both sides of the half minutes of 01:00, 01:01 and 01:02
StampSeconds == {0, 29, 30, 31, 89, 90, 91}

StampStories == {Stamp(sec) : sec \in StampSeconds}

\* the publish instant of a story, in seconds
InstantOf(story) == ((story.d * 24 + story.h) * 60 + story.m) * 60 + story.s

Blank ==
    [title |-> << >>, headline |-> << >>, description |-> << >>,
     time_published |-> NULL, datetime |-> NULL, date |-> NULL, pubDate |-> NULL,
     summary |-> Text(0), source |-> "", publisher |-> "",
     finbert |-> [label |-> "Neutral", score |-> 50], banner_image_url |-> Url]

\* The article dictionary a provider returns for a story, in the layout
\* news/views.py standardize_article documents for that provider.
Encode(provider, story) ==
    LET common == [Blank EXCEPT !.summary = story.summary, !.source = story.source,
                                !.finbert = story.finbert,
                                !.banner_image_url = story.banner]
    IN  CASE provider = "alphavantage" ->
               [common EXCEPT !.title = story.title,
                              !.time_published = StrDate("%Y%m%dT%H%M%S", story.d, story.h,
                                                         story.m, story.s, FALSE)]
          [] provider = "finnhub" ->
               [common EXCEPT !.headline = story.title,
                              !.datetime = IntDate(InstantOf(story))]
          [] OTHER ->
               [common EXCEPT !.title = story.title,
                              !.pubDate = StrDate("%a, %d %b %Y %H:%M:%S %Z", story.d,
                                                  story.h, story.m, story.s, FALSE)]

EncodeAll(provider, stories) == [i \in 1..Len(stories) |-> Encode(provider, stories[i])]

RECURSIVE SeqsUpTo(_, _)
SeqsUpTo(S, n) ==
    IF n = 0 THEN {<< >>}
    ELSE LET shorter == SeqsUpTo(S, n - 1)
         IN  shorter \cup {Append(q, a) : q \in {p \in shorter : Len(p) = n - 1}, a \in S}

\* the story lists the providers can be serving
Feeds == SeqsUpTo(Stories, MaxBatch)

\* longer lists, with a headline that two desks typed differently
BatchFeeds == SeqsUpTo(Stories \cup {StoryUpAgain, StoryUpNullSummary}, MaxBatch + 1)

\* ------------------------------------------------------------------------
\* utils.analyze_sentiment, as _process_articles sees it
\* ------------------------------------------------------------------------

LabelLower(l) ==
    CASE l = "Positive" -> "positive"
      [] l = "Negative" -> "negative"
      [] l = "Neutral" -> "neutral"
      [] OTHER -> l

NEUTRAL_RESULT == [label |-> "neutral", score |-> 0]

\* len(str(text).strip()) for text = f"{title} {summary}"
ContentLen(title, summary) ==
    IF summary = NULL THEN Len(LStrip(title)) + 1 + 4      \* "... None"
    ELSE IF summary.len = 0 THEN Len(Strip(title))
    ELSE Len(LStrip(title)) + 1 + summary.len

\* the body of analyze_sentiment without the length test
score_text_any_length(stripped_len, valid, infer, finbert) ==
    IF ~valid THEN NEUTRAL_RESULT
    ELSE IF infer # "ok" THEN NEUTRAL_RESULT
    ELSE [label |-> LabelLower(finbert.label), score |-> finbert.score]

\* The body of analyze_sentiment for a text of the given stripped length.
\* valid: what validate_model() returned; infer: how the tokenizer and the
\* model call end ("ok", "oom" for torch.cuda.OutOfMemoryError, "error" for
\* any other exception); finbert: the label and score the model gives.
score_text(stripped_len, valid, infer, finbert) ==
    IF ~valid THEN NEUTRAL_RESULT
    ELSE IF stripped_len < MIN_TEXT_LENGTH THEN NEUTRAL_RESULT
    ELSE IF infer # "ok" THEN NEUTRAL_RESULT
    ELSE [label |-> LabelLower(finbert.label), score |-> finbert.score]

\* modelReady: validate_model() and the inference both succeed
analyze_sentiment(article, title, modelReady) ==
    score_text(ContentLen(title, article.summary), modelReady, "ok", article.finbert)

\* ------------------------------------------------------------------------
\* The article store (ProcessedNews)
\* ------------------------------------------------------------------------

Min(a, b) == IF a < b THEN a ELSE b

Rows(st) == BagToSet(st)

Matching(st, hash, symbol) ==
    {r \in Rows(st) : r.title_hash = hash /\ r.symbol = symbol}

\* UniqueConstraint(fields=['title_hash', 'symbol'])
unique_article_per_symbol(st, row) == Matching(st, row.title_hash, row.symbol) = {}

\* ProcessedNews.save(): the checks made before the row is written
SaveValid(row) ==
    /\ row.confidence >= 0 /\ row.confidence <= 100
    /\ row.symbol # ""
    /\ row.title # << >>

\* update_or_create that reports created = True also when it updated a row
update_or_create_always_created(st, hash, symbol, defaults) ==
    LET found == Matching(st, hash, symbol)
        fresh == [defaults EXCEPT !.title_hash = hash, !.symbol = symbol]
    IN  IF found # {}
        THEN LET old == CHOOSE r \in found : TRUE
                 upd == [fresh EXCEPT !.confidence = old.confidence]
             IN  IF ~SaveValid(upd)
                 THEN [st |-> st, created |-> FALSE, err |-> "ValidationError"]
                 ELSE [st |-> (st (-) SetToBag({old})) (+) SetToBag({upd}),
                       created |-> TRUE, err |-> "none"]
        ELSE IF ~SaveValid(fresh)
             THEN [st |-> st, created |-> FALSE, err |-> "ValidationError"]
        ELSE [st |-> st (+) SetToBag({fresh}), created |-> TRUE, err |-> "none"]

\* a plain create() in place of update_or_create: an existing key makes the
\* INSERT fail on the unique constraint and the stored row stays as it was
update_or_create_insert_only(st, hash, symbol, defaults) ==
    LET fresh == [defaults EXCEPT !.title_hash = hash, !.symbol = symbol]
    IN  IF ~SaveValid(fresh)
        THEN [st |-> st, created |-> FALSE, err |-> "ValidationError"]
        ELSE IF ~unique_article_per_symbol(st, fresh)
             THEN [st |-> st, created |-> FALSE, err |-> "IntegrityError"]
        ELSE [st |-> st (+) SetToBag({fresh}), created |-> TRUE, err |-> "none"]

\* banner_image_url = models.URLField(...) without null=True: the column is
\* NOT NULL, and the INSERT or UPDATE of a row with None in it fails
NotNull(row) == row.banner_image_url # NULL

\* QuerySet.update_or_create(title_hash=, symbol=, defaults=) as one
\* transaction: [st, created, err]
update_or_create(st, hash, symbol, defaults) ==
    LET found == Matching(st, hash, symbol)
        fresh == [defaults EXCEPT !.title_hash = hash, !.symbol = symbol]
    IN  IF found # {}
        THEN LET old == CHOOSE r \in found : TRUE
                 upd == [fresh EXCEPT !.confidence = old.confidence]
             IN  IF ~SaveValid(upd)
                 THEN [st |-> st, created |-> FALSE, err |-> "ValidationError"]
                 ELSE IF ~NotNull(upd)
                 THEN [st |-> st, created |-> FALSE, err |-> "IntegrityError"]
                 ELSE [st |-> (st (-) SetToBag({old})) (+) SetToBag({upd}),
                       created |-> FALSE, err |-> "none"]
        ELSE IF ~SaveValid(fresh)
             THEN [st |-> st, created |-> FALSE, err |-> "ValidationError"]
        ELSE IF ~unique_article_per_symbol(st, fresh) \/ ~NotNull(fresh)
             THEN [st |-> st, created |-> FALSE, err |-> "IntegrityError"]
        ELSE [st |-> st (+) SetToBag({fresh}), created |-> TRUE, err |-> "none"]

\* cached_articles with the publish-time condition left out of the filter
cached_articles_any_age(st, symbol, nowS) ==
    LET hits == {r \in Rows(st) : r.symbol = symbol}
        count == BagCardinality([r \in hits |-> CopiesIn(r, st)])
    IN  Min(count, MAX_ARTICLES)

\* cached_articles with the comparison turned round (published_at__lte)
cached_articles_lte(st, symbol, nowS) ==
    LET cutoff == nowS * 1000 - CACHE_HOURS * HourMs
        hits == {r \in Rows(st) : r.symbol = symbol /\ r.published_at <= cutoff}
        count == BagCardinality([r \in hits |-> CopiesIn(r, st)])
    IN  Min(count, MAX_ARTICLES)

\* ProcessedNews.objects.filter(symbol=, published_at__gte=cutoff)[:MAX_ARTICLES]
cached_articles(st, symbol, nowS) ==
    LET cutoff == nowS * 1000 - CACHE_HOURS * HourMs
        hits == {r \in Rows(st) : r.symbol = symbol /\ r.published_at >= cutoff}
        count == BagCardinality([r \in hits |-> CopiesIn(r, st)])
    IN  Min(count, MAX_ARTICLES)

\* ------------------------------------------------------------------------
\* _filter_recent_articles and phase 1 of _process_articles
\* ------------------------------------------------------------------------

\* the filter letting every article through
_filter_recent_articles_keep_all(articles, nowS) == articles

_filter_recent_articles(articles, nowS) ==
    LET cutoff == nowS * 1000 - CACHE_HOURS * HourMs
    IN  SelectSeq(articles,
                  LAMBDA a : _parse_date(a) # NULL /\ _parse_date(a).ms >= cutoff)

\* the articles kept by the in-memory deduplication, in order
RECURSIVE Dedupe(_, _)
Dedupe(articles, seen_hashes) ==
    IF articles = << >> THEN << >>
    ELSE LET a == Head(articles)
         IN  IF ~Hashable(a) THEN Dedupe(Tail(articles), seen_hashes)
             ELSE IF ArticleHash(a) \in seen_hashes
                  THEN Dedupe(Tail(articles), seen_hashes)
             ELSE << a >> \o Dedupe(Tail(articles), seen_hashes \cup {ArticleHash(a)})

\* phase 1 without the seen_hashes test: repeats stay in the batch
deduped_articles_keep_repeats(articles) == SelectSeq(articles, Hashable)

deduped_articles(articles) == Dedupe(articles, {})

\* the defaults dictionary of phase 2
Defaults(article, title, ms, result) ==
    LET source == IF article.source # "" THEN article.source ELSE article.publisher
    IN  [title_hash |-> << >>, symbol |-> "",
         title |-> SubSeq(title, 1, Min(Len(title), 200)),
         summary |-> Min(article.summary.len, SUMMARY_MAX),
         source |-> source,
         published_at |-> ms,
         sentiment |-> LabelLower(result.label),
         sentiment_score |-> result.score,
         confidence |-> DEFAULT_CONFIDENCE,
         source_reliability |-> get_source_reliability(source),
         banner_image_url |-> article.banner_image_url,
         raw_data |-> article]

\* update_or_create creating a row whenever its get found none
update_or_create_after_get_unconstrained(st, hash, symbol, defaults, seen) ==
    LET found == Matching(st, hash, symbol)
        fresh == [defaults EXCEPT !.title_hash = hash, !.symbol = symbol]
    IN  IF ~seen
        THEN [st |-> st (+) SetToBag({fresh}), created |-> TRUE, err |-> "none"]
        ELSE LET old == CHOOSE r \in found : TRUE
                 upd == [fresh EXCEPT !.confidence = old.confidence]
             IN  [st |-> (st (-) SetToBag({old})) (+) SetToBag({upd}),
                  created |-> FALSE, err |-> "none"]

\* QuerySet.update_or_create from the point where its first get has answered
\* (seen: it found the row). A row found is updated. A row not found is
\* created; when another transaction has created it since, the INSERT fails
\* on the unique constraint, get_or_create catches the IntegrityError and
\* gets the row, and the row is updated with created = False.
update_or_create_after_get(st, hash, symbol, defaults, seen) ==
    LET found == Matching(st, hash, symbol)
        fresh == [defaults EXCEPT !.title_hash = hash, !.symbol = symbol]
    IN  IF ~seen /\ unique_article_per_symbol(st, fresh)
        THEN IF ~SaveValid(fresh)
             THEN [st |-> st, created |-> FALSE, err |-> "ValidationError"]
             ELSE IF ~NotNull(fresh)
             THEN [st |-> st, created |-> FALSE, err |-> "IntegrityError"]
             ELSE [st |-> st (+) SetToBag({fresh}), created |-> TRUE, err |-> "none"]
        ELSE LET old == CHOOSE r \in found : TRUE
                 upd == [fresh EXCEPT !.confidence = old.confidence]
             IN  IF ~SaveValid(upd)
                 THEN [st |-> st, created |-> FALSE, err |-> "ValidationError"]
                 ELSE IF ~NotNull(upd)
                 THEN [st |-> st, created |-> FALSE, err |-> "IntegrityError"]
                 ELSE [st |-> (st (-) SetToBag({old})) (+) SetToBag({upd}),
                       created |-> FALSE, err |-> "none"]

\* ------------------------------------------------------------------------
\* Celery: Task.retry and the autoretry_for wrapper
\* ------------------------------------------------------------------------

RETRY_BACKOFF == 120

AutoretryFor == {"HTTPError", "ConnectionError"}

Message(req, symbol, latest, retries, countdown) ==
    [req |-> req, symbol |-> symbol, latest |-> latest, retries |-> retries,
     countdown |-> countdown]

\* self.retry(exc=exc, countdown=countdown): the exception it raises and the
\* queue after it.  With retries left it re-sends the task and raises Retry;
\* without, it raises exc when one is given, else MaxRetriesExceededError.
retry(q, m, exc, countdown) ==
    IF m.retries + 1 > max_retries
    THEN [queue |-> q,
          raised |-> IF exc # "none" THEN exc ELSE "MaxRetriesExceededError"]
    ELSE [queue |-> q (+) SetToBag({Message(m.req, m.symbol, m.latest,
                                            m.retries + 1, countdown)}),
          raised |-> "Retry"]

\* An exception exc reaches `except Exception` of fetch_and_process_news
\* (lines 225-230); what leaves the task body then passes the autoretry
\* wrapper.  Result: the queue and how the execution ends.
OuterHandler(q, m, exc) ==
    LET r == retry(q, m, exc, RETRY_COUNTDOWN_FAILURE)
    IN  IF r.raised = "MaxRetriesExceededError"
        THEN [queue |-> r.queue, kind |-> "returned", status |-> "failed", exc |-> "none"]
        ELSE IF r.raised = "Retry"
        THEN [queue |-> r.queue, kind |-> "retry", status |-> "none", exc |-> "Retry"]
        ELSE IF r.raised \in AutoretryFor
        THEN LET a == retry(r.queue, m, r.raised, RETRY_BACKOFF)
             IN  IF a.raised = "Retry"
                 THEN [queue |-> a.queue, kind |-> "retry", status |-> "none", exc |-> "Retry"]
                 ELSE [queue |-> a.queue, kind |-> "raised", status |-> "none", exc |-> a.raised]
        ELSE [queue |-> r.queue, kind |-> "raised", status |-> "none", exc |-> r.raised]

\* the 429 branch re-raising the HTTPError instead of calling self.retry
\* with countdown=60
RateLimitHandler_reraise(q, m) == OuterHandler(q, m, "HTTPError")

\* A provider answered 429 (lines 201-204): raise self.retry(exc=e,
\* countdown=60) inside the inner handler; what it raises is caught by the
\* outer `except Exception`.
RateLimitHandler(q, m) ==
    LET r == retry(q, m, "HTTPError", RETRY_COUNTDOWN_429)
    IN  OuterHandler(r.queue, m, r.raised)

\* ------------------------------------------------------------------------
\* news/utils.py: the FinBERT scorer
\* ------------------------------------------------------------------------

batch_size == 8

failure_threshold == 5

recovery_timeout == 300

\* a text to score: its characters and what FinBERT answers for it
ScorerText(lead, body, label, score) ==
    [chars |-> [i \in 1..(lead + body) |-> IF i <= lead THEN " " ELSE "a"],
     finbert |-> [label |-> label, score |-> score]]

\* len(str(text).strip())
StrippedLen(text) == Len(Strip(text.chars))

\* @lru_cache(maxsize=1) around a loader: the cached value, also a cached
\* None, is returned without loading
Load(cached, ok) ==
    IF cached = "unloaded" THEN (IF ok THEN "loaded" ELSE "none") ELSE cached

\* validate_model(): tokOk and modOk say whether a load attempted now
\* succeeds; the result and the caches after it
validate_model(tokenizer, model, tokOk, modOk) ==
    LET t1 == Load(tokenizer, tokOk)
        m1 == IF t1 = "none" THEN model ELSE Load(model, modOk)
    IN  IF t1 = "none" \/ m1 = "none"
        THEN LET t2 == Load("unloaded", tokOk)
                 m2 == IF t2 = "none" THEN "unloaded" ELSE Load("unloaded", modOk)
             IN  [ok |-> t2 = "loaded" /\ m2 = "loaded", tokenizer |-> t2, model |-> m2]
        ELSE [ok |-> TRUE, tokenizer |-> t1, model |-> m1]

NoCall ==
    [fn |-> "none", texts |-> << >>, results |-> << >>, valid |-> FALSE,
     infer |-> "none", invoked |-> 0, raised |-> FALSE, i |-> 0, ooms |-> 0,
     pc |-> "idle"]

\* the module after import: the caches as warmup_model() left them, the
\* configured batch size, no call made; streak counts the failed calls in a
\* row before the last call and failed says whether the last call failed
ScorerIdle(tokenizer, model) ==
    [tokenizer |-> tokenizer, model |-> model, batch_size |-> batch_size,
     streak |-> 0, failed |-> FALSE, call |-> NoCall]

\* the results list comprehension over a chunk
RECURSIVE ChunkResults(_, _, _)
ChunkResults(texts, from, to) ==
    IF from > to THEN << >>
    ELSE << [label |-> LabelLower(texts[from].finbert.label),
             score |-> texts[from].finbert.score] >>
         \o ChunkResults(texts, from + 1, to)

Neutrals(n) == [k \in 1..n |-> NEUTRAL_RESULT]

\* ------------------------------------------------------------------------
\* news/finbert_sentiment.py: the rate limiter
\* ------------------------------------------------------------------------

RATE_LIMIT_PERIOD == 60

RATE_LIMIT_MAX_REQUESTS == 100

Callers == {"c1", "c2"}

\* Nothing under RATE_LIMIT_KEY, no call made. hist[k] counts the calls
\* accepted k - 1 steps of the clock ago, over `instants` steps.
LimiterIdle(instants) ==
    [count |-> 0, expires |-> 0, hist |-> [k \in 1..instants |-> 0],
     callers |-> [c \in Callers |-> [pc |-> "idle", seen |-> 0]],
     last |-> [caller |-> "", result |-> "none", invoked |-> FALSE]]

\* cache.get(RATE_LIMIT_KEY, 0) at time t: a key past its timeout is gone
current_count(lim, t) == IF t < lim.expires THEN lim.count ELSE 0

\* cache.set(RATE_LIMIT_KEY, value, RATE_LIMIT_PERIOD) at time t, and one
\* more accepted call on record
Accept(lim, value, t) ==
    [lim EXCEPT !.count = value, !.expires = t + RATE_LIMIT_PERIOD, !.hist[1] = @ + 1]

\* check_rate_limit letting a call through when the counter is at the limit
check_rate_limit_off_by_one(lim, t) ==
    IF current_count(lim, t) > RATE_LIMIT_MAX_REQUESTS
    THEN [ok |-> FALSE, lim |-> lim]
    ELSE [ok |-> TRUE, lim |-> Accept(lim, current_count(lim, t) + 1, t)]

\* check_rate_limit() at time t with no other caller in between
check_rate_limit(lim, t) ==
    IF current_count(lim, t) >= RATE_LIMIT_MAX_REQUESTS
    THEN [ok |-> FALSE, lim |-> lim]
    ELSE [ok |-> TRUE, lim |-> Accept(lim, current_count(lim, t) + 1, t)]

\* What finbert_sentiment.analyze_sentiment returns to caller c. outcome
\* says how the call goes on once it is let through: "invalid" (empty or
\* non-string text), "unloaded" (nlp is None), "ok", "error" (the pipeline
\* raises); the model is called in the last two.
Answer(c, ok, outcome) ==
    IF ok THEN [caller |-> c, result |-> outcome, invoked |-> outcome \in {"ok", "error"}]
    ELSE [caller |-> c, result |-> "Rate limit exceeded", invoked |-> FALSE]

\* ------------------------------------------------------------------------
\* Fusion engine (stocks/opinion_generator.py)
\*
\* A symbol is a sequence of one-character strings. Prices and moving
\* averages are whole dollars; stop_loss and take_profit are in cents.
\* A float that is a ratio of the inputs is kept as a reduced fraction
\* [num, den] with den > 0.
\* ------------------------------------------------------------------------

TIER1_SOURCES == {"Bloomberg", "Reuters", "WSJ", "Financial Times", "CNBC", "Barron's"}

UpperLetters == {"A", "B", "E", "F", "G", "I", "K", "L", "M", "O", "R"}

\* str.upper() on one character
Upper(c) ==
    CASE c = "i" -> "I"
      [] c = "b" -> "B"
      [] c = "m" -> "M"
      [] OTHER -> c

UpperAll(s) == [i \in 1..Len(s) |-> Upper(s[i])]

\* re.match(r'^[A-Z]{1,5}$', s): one to five capital letters, and `$` also
\* matches just before a newline that ends the string
SymbolPattern(s) ==
    LET body == IF Len(s) > 0 /\ s[Len(s)] = "\n" THEN SubSeq(s, 1, Len(s) - 1) ELSE s
    IN  /\ Len(body) \in 1..5
        /\ \A i \in 1..Len(body) : body[i] \in UpperLetters

\* InstitutionalAnalysisEngine.__init__ with the default risk_type, hold_time
\* and detail_level: self.symbol, and whether _validate_parameters raises
Engine(symbol) ==
    [symbol |-> UpperAll(symbol), raised |-> ~SymbolPattern(UpperAll(symbol))]

RECURSIVE Gcd(_, _)
Gcd(a, b) == IF b = 0 THEN a ELSE Gcd(b, a % b)

Frac(n, d) ==
    LET g == Gcd(IF n < 0 THEN 0 - n ELSE n, d)
    IN  [num |-> n \div g, den |-> d \div g]

FracLess(x, y) == x.num * y.den < y.num * x.den

FracTimes(x, y) == Frac(x.num * y.num, x.den * y.den)

\* np.clip(x, -1.0, 1.0)
Clip(x) ==
    IF x.num > x.den THEN Frac(1, 1)
    ELSE IF x.num < 0 - x.den THEN Frac(0 - 1, 1)
    ELSE x

\* MarketRegimeResult
Regime(regime, confidence) == [regime |-> regime, confidence |-> confidence]

\* what yfinance serves for the symbol, seen through _calculate_metrics and
\* get_current_regime
Prices(current_price, sma_50, sma_200, regime) ==
    [empty |-> FALSE, current_price |-> current_price, sma_50 |-> sma_50,
     sma_200 |-> sma_200, market_regime |-> regime]

\* no rows for the symbol, or the download raised
NoPrices == [empty |-> TRUE]

\* the snapshot analyze() returns from its except branch
NeutralSnapshot ==
    [sma_50 |-> 0, sma_200 |-> 0, rsi |-> 50, current_price |-> 0, volatility |-> 0,
     confidence |-> 0, market_regime |-> Regime("neutral", 50)]

\* TechnicalAnalyzer.analyze: the snapshot, and the calls it made
analyze(data) ==
    IF data.empty
    THEN [technicals |-> NeutralSnapshot, calls |-> << "prices" >>]
    ELSE [technicals |->
            [sma_50 |-> data.sma_50, sma_200 |-> data.sma_200, rsi |-> 50,
             current_price |-> data.current_price, volatility |-> 0,
             confidence |-> 50, market_regime |-> data.market_regime],
          calls |-> << "prices", "regime" >>]

\* an article as the news API serves it. published_at: kind "naive" is an
\* ISO string without offset, "aware" one with an offset or Z, "garbled" one
\* fromisoformat rejects; halflives is its age in units of 24 ln 2 hours.
\* confidence is in hundredths, source_reliability in percent; missing is
\* the set of keys the article does not have.
Article(kind, halflives, sentiment, confidence, reliability, source, missing) ==
    [published_at |-> [kind |-> kind, halflives |-> halflives], sentiment |-> sentiment,
     confidence |-> confidence, source_reliability |-> reliability, source |-> source,
     missing |-> missing]

RequiredKeys == {"sentiment", "confidence", "source_reliability", "published_at"}

\* NewsAnalyzer._process_articles: the articles that have every required key
_process_articles(articles) ==
    SelectSeq(articles, LAMBDA a : a.missing \cap RequiredKeys = {})

\* np.exp(-hours_old / 24), in halves
recency(published_at) == 2 \div (2 ^ published_at.halflives)

\* one weight unit: confidence in hundredths x reliability in percent x
\* recency in halves
WeightUnit == 100 * 100 * 2

SentimentValue(sentiment) ==
    CASE sentiment = "positive" -> 1
      [] sentiment = "negative" -> 0 - 1
      [] OTHER -> 0

NoSentiment ==
    [scores |-> << >>, sentiment_counts |-> [positive |-> 0, neutral |-> 0, negative |-> 0],
     source_weights |-> {}, skipped |-> 0]

\* the body of the loop of _analyze_sentiment for one article: what the
\* statements before the one that raises have changed stays changed
Contribute(acc, article) ==
    IF article.published_at.kind # "naive"
    THEN [acc EXCEPT !.skipped = @ + 1]
    ELSE LET source_weight == IF article.source \in TIER1_SOURCES THEN 2 ELSE 1
             weights == {p \in acc.source_weights : p[1] # article.source}
                            \cup {<< article.source, source_weight >>}
             sentiment == LabelLower(article.sentiment)
             weight == article.confidence * article.source_reliability
                           * recency(article.published_at) * source_weight
             scores == Append(acc.scores, SentimentValue(sentiment) * weight)
         IN  IF sentiment \in DOMAIN acc.sentiment_counts
             THEN [acc EXCEPT !.source_weights = weights, !.scores = scores,
                              !.sentiment_counts[sentiment] = @ + 1]
             ELSE [acc EXCEPT !.source_weights = weights, !.scores = scores,
                              !.skipped = @ + 1]

RECURSIVE Contributions(_, _)
Contributions(acc, articles) ==
    IF articles = << >> THEN acc
    ELSE Contributions(Contribute(acc, Head(articles)), Tail(articles))

RECURSIVE SumSeq(_)
SumSeq(s) == IF s = << >> THEN 0 ELSE Head(s) + SumSeq(Tail(s))

\* min(100, max(0, x))
Percent(x) ==
    IF x.num < 0 THEN Frac(0, 1)
    ELSE IF x.num > 100 * x.den THEN Frac(100, 1)
    ELSE x

\* the regime factor, in tenths
regime_adjustment(market_regime) ==
    CASE market_regime.regime = "bull" -> 11
      [] market_regime.regime = "bear" -> 9
      [] OTHER -> 10

\* np.mean(scores) if scores else 0.0
avg_score(scores) ==
    IF scores = << >> THEN Frac(0, 1) ELSE Frac(SumSeq(scores), Len(scores) * WeightUnit)

\* InstitutionalAnalysisEngine._analyze_sentiment; confidence is in percent
_analyze_sentiment(articles, market_regime) ==
    IF articles = << >>
    THEN [score |-> Frac(0, 1), confidence |-> Frac(0, 1),
          sentiment_distribution |-> NoSentiment.sentiment_counts,
          source_weights |-> {}, scores |-> << >>]
    ELSE LET acc == Contributions(NoSentiment, articles)
         IN  [score |-> Clip(FracTimes(avg_score(acc.scores),
                                       Frac(regime_adjustment(market_regime), 10))),
              confidence |-> Percent(Frac(SumSeq([i \in 1..Len(articles) |->
                                                         articles[i].confidence]),
                                          Len(articles))),
              sentiment_distribution |-> acc.sentiment_counts,
              source_weights |-> acc.source_weights, scores |-> acc.scores]

\* a recommendation string, as the sequence of its words, spaces and dashes
ParsedRecommendation == << "HOLD", " ", "-", " ", "Neutral outlook based on mixed signals" >>

\* _parse_llm_response
_parse_llm_response(technicals) ==
    [recommendation |-> ParsedRecommendation, source |-> "Institutional Analysis Engine"]

\* _generate_fallback_opinion deciding on the sentiment alone
_generate_fallback_opinion_sentiment_only(technicals, sentiment) ==
    [recommendation |->
        IF FracLess(Frac(3, 10), sentiment.score) THEN << "BUY" >>
        ELSE IF FracLess(sentiment.score, Frac(0 - 3, 10)) THEN << "SELL" >>
        ELSE << "HOLD" >>,
     source |-> "fallback"]

\* _generate_fallback_opinion
_generate_fallback_opinion(technicals, sentiment) ==
    [recommendation |->
        IF FracLess(Frac(3, 10), sentiment.score)
           /\ technicals.current_price > technicals.sma_200 THEN << "BUY" >>
        ELSE IF FracLess(sentiment.score, Frac(0 - 3, 10))
           /\ technicals.current_price < technicals.sma_200 THEN << "SELL" >>
        ELSE << "HOLD" >>,
     source |-> "fallback"]

\* the answers of the inference API: "200" with generated text, "200-malformed"
\* with a body that has none, another status, or a request that raises
LlmAnswers == {"200", "200-malformed", "503", "raises"}

\* _generate_llm_opinion
_generate_llm_opinion(technicals, sentiment, answer) ==
    IF answer = "200" THEN _parse_llm_response(technicals)
    ELSE _generate_fallback_opinion(technicals, sentiment)

\* str.upper() on one word
UpperWord(w) ==
    CASE w = "Buy" -> "BUY"
      [] w = "Sell" -> "SELL"
      [] w = "Hold" -> "HOLD"
      [] OTHER -> w

\* recommendation.split("-")[0].strip().upper(), looked up in the mapping
_normalize_recommendation(recommendation) ==
    LET dashes == {i \in 1..Len(recommendation) : recommendation[i] = "-"}
        first == IF dashes = {} THEN recommendation
                 ELSE SubSeq(recommendation, 1,
                             (CHOOSE i \in dashes : \A j \in dashes : i <= j) - 1)
        stripped == Strip(first)
        normalized == IF Len(stripped) = 1 THEN UpperWord(stripped[1]) ELSE ""
    IN  CASE normalized = "STRONG_BUY" -> << "strong_buy", 90 >>
          [] normalized = "BUY" -> << "buy", 75 >>
          [] normalized = "HOLD" -> << "hold", 50 >>
          [] normalized = "SELL" -> << "sell", 25 >>
          [] normalized = "STRONG_SELL" -> << "strong_sell", 10 >>
          [] OTHER -> << "hold", 50 >>

\* _calculate_risk_metrics, in cents; the division raises ZeroDivisionError
\* when the price equals the stop loss
_calculate_risk_metrics(technicals) ==
    LET stop_loss == technicals.sma_200 * 95
        take_profit == technicals.sma_50 * 105
        price == technicals.current_price * 100
    IN  IF price = stop_loss
        THEN [raised |-> TRUE, stop_loss |-> stop_loss, take_profit |-> take_profit]
        ELSE [raised |-> FALSE, stop_loss |-> stop_loss, take_profit |-> take_profit,
              risk_reward_ratio |->
                  IF price > stop_loss THEN Frac(take_profit - price, price - stop_loss)
                  ELSE Frac(price - take_profit, stop_loss - price)]

\* _error_response
_error_response(message) == [error |-> message]

\* _format_response, or the error full_analysis makes of what it raises
_format_response(technicals, sentiment, llm_response) ==
    LET risk == _calculate_risk_metrics(technicals)
        action == _normalize_recommendation(llm_response.recommendation)
    IN  IF risk.raised THEN _error_response("float division by zero")
        ELSE [error |-> "",
              recommendation |-> [action |-> action[1], confidence |-> action[2],
                                  source |-> llm_response.source],
              risk_metrics |-> risk]

\* full_analysis going on with a snapshot whose price is 0
full_analysis_no_check(data, news, answer) ==
    LET a == analyze(data)
        technicals == a.technicals
        articles == _process_articles(news)
        sentiment == _analyze_sentiment(articles, technicals.market_regime)
        llm_response == _generate_llm_opinion(technicals, sentiment, answer)
    IN  [stage |-> "analysed", calls |-> a.calls \o << "news", "llm" >>,
         technicals |-> technicals, articles |-> articles, sentiment |-> sentiment,
         llm_response |-> llm_response,
         result |-> _format_response(technicals, sentiment, llm_response)]

\* full_analysis: the result, the calls made to the outside in order, and
\* the intermediate values
full_analysis(data, news, answer) ==
    LET a == analyze(data)
        technicals == a.technicals
        articles == _process_articles(news)
        sentiment == _analyze_sentiment(articles, technicals.market_regime)
        llm_response == _generate_llm_opinion(technicals, sentiment, answer)
    IN  IF technicals.current_price = 0
        THEN [stage |-> "degraded", calls |-> a.calls, technicals |-> technicals,
              result |-> _error_response("Technical analysis failed")]
        ELSE [stage |-> "analysed", calls |-> a.calls \o << "news", "llm" >>,
              technicals |-> technicals, articles |-> articles, sentiment |-> sentiment,
              llm_response |-> llm_response,
              result |-> _format_response(technicals, sentiment, llm_response)]

\* generate_stock_opinion_sync: a ValueError of the constructor becomes an
\* error result
generate_stock_opinion_sync(symbol, data, news, answer) ==
    IF Engine(symbol).raised
    THEN [stage |-> "rejected", calls |-> << >>,
          result |-> _error_response("Invalid stock symbol")]
    ELSE full_analysis(data, news, answer)

\* no opinion was asked for
FusionIdle == [pc |-> "idle"]

\* a call of generate_stock_opinion_sync and what the outside will answer
FusionCall(symbol, data, news, answer) ==
    [pc |-> "called", symbol |-> symbol, data |-> data, news |-> news, answer |-> answer]

\* ------------------------------------------------------------------------
\* State
\* ------------------------------------------------------------------------

VARIABLES
    store,      \* bag of ProcessedNews rows
    now,        \* the clock, in seconds
    queue,      \* bag of task messages waiting in the broker
    run,        \* per worker: the execution in progress or last finished
    submitted,  \* number of requests made with .delay()
    execs,      \* request id -> number of executions started
    feed,       \* the stories the providers are serving
    scorer,     \* news/utils.py: the cached model, the batch size, the last call
    limiter,    \* news/finbert_sentiment.py: the counter in the cache, its callers
    fusion      \* stocks/opinion_generator.py: the last opinion request and its result

vars == << store, now, queue, run, submitted, execs, feed, scorer, limiter, fusion >>

NoPrev ==
    [ingested |-> FALSE, symbol |-> "", latest |-> FALSE, provider |-> "", new |-> 0]

IdleRun ==
    [pc |-> "idle", req |-> 0, symbol |-> "", latest |-> FALSE, retries |-> 0,
     idx |-> 0, called |-> << >>, answers |-> << >>,
     batch |-> << >>, new |-> 0, dup |-> 0, enriched |-> 0, wrote |-> 0,
     cacheHit |-> FALSE, kind |-> "none", status |-> "none", exc |-> "none",
     scheduled |-> 0, prev |-> NoPrev, seen |-> FALSE, scored |-> NEUTRAL_RESULT]

\* the execution fetched articles, processed them and returned its counts
Ingested(r) ==
    r.pc = "done" /\ r.kind = "returned" /\ r.status = "success" /\ ~r.cacheHit

\* what an execution remembers of the one the worker ran before it
Summary(r) ==
    [ingested |-> Ingested(r), symbol |-> r.symbol, latest |-> r.latest,
     provider |-> IF r.called = << >> THEN "" ELSE r.called[Len(r.called)],
     new |-> r.new]

MessageOf(r) == Message(r.req, r.symbol, r.latest, r.retries, 0)

\* an empty store, an empty broker queue, idle workers
Quiescent(feeds) ==
    /\ store = EmptyBag
    /\ now = T0
    /\ queue = EmptyBag
    /\ run = [w \in Workers |-> IdleRun]
    /\ submitted = 0
    /\ execs = [q \in 1..MaxRequests |-> 0]
    /\ feed \in feeds

\* ingestion starts with the model loaded and the rate limiter untouched
InitWith(feeds) ==
    /\ Quiescent(feeds)
    /\ scorer = ScorerIdle("loaded", "loaded")
    /\ limiter = LimiterIdle(2)
    /\ fusion = FusionIdle

Init == InitWith(Feeds)

\* `if not articles` raising instead of returning the error result
NoArticles_raises(r) ==
    [r EXCEPT !.pc = "done", !.kind = "raised", !.exc = "ValueError"]

\* `if not articles` after the provider loop (lines 210-212)
NoArticles(r) == [r EXCEPT !.pc = "done", !.kind = "returned", !.status = "error"]

\* the execution r ends as `out` describes; q is the queue before
Ended(r, out, q) ==
    [r EXCEPT !.pc = "done", !.kind = out.kind, !.status = out.status,
              !.exc = out.exc,
              !.scheduled = BagCardinality(out.queue) - BagCardinality(q)]

\* ------------------------------------------------------------------------
\* Actions
\* ------------------------------------------------------------------------

\* news/views.py get_news: fetch_and_process_news.delay(symbol)
Submit(symbol, latest) ==
    /\ submitted < MaxRequests
    /\ submitted' = submitted + 1
    /\ queue' = queue (+) SetToBag({Message(submitted + 1, symbol, latest, 0, 0)})
    /\ UNCHANGED << store, now, run, execs, feed, scorer, limiter, fusion >>

Tick ==
    /\ \E t \in Instants : t > now /\ now' = t
    /\ UNCHANGED << store, queue, run, submitted, execs, feed, scorer, limiter, fusion >>

\* A worker takes a due message and runs the task up to the first provider
\* call: the freshness query and the cache short-circuit (lines 170-185).
Start(w, m, dbOk) ==
    /\ run[w].pc \in {"idle", "done"}
    /\ BagIn(m, queue)
    /\ execs' = [execs EXCEPT ![m.req] = @ + 1]
    /\ LET q0 == queue (-) SetToBag({m})
           r0 == [IdleRun EXCEPT !.req = m.req, !.symbol = m.symbol,
                                 !.latest = m.latest, !.retries = m.retries,
                                 !.prev = Summary(run[w])]
           hits == cached_articles(store, m.symbol, now)
       IN  IF ~dbOk
           THEN LET out == OuterHandler(q0, m, "DatabaseError")
                IN  /\ queue' = out.queue
                    /\ run' = [run EXCEPT ![w] = Ended(r0, out, q0)]
           ELSE IF hits > 0
           THEN /\ queue' = q0
                /\ run' = [run EXCEPT ![w] =
                             [r0 EXCEPT !.pc = "done", !.cacheHit = TRUE,
                                        !.kind = "returned", !.status = "success",
                                        !.new = 0, !.dup = hits]]
           ELSE /\ queue' = q0
                /\ run' = [run EXCEPT ![w] = [r0 EXCEPT !.pc = "fetch", !.idx = 1]]
    /\ UNCHANGED << store, now, submitted, feed, scorer, limiter, fusion >>

\* One iteration of the provider loop (lines 190-212), and on a non-empty
\* answer the recency filter and phase 1 of _process_articles.
\* answer: "empty", "error" (timeout, 5xx, malformed), "429" or "articles".
CallProvider(w, answer) ==
    LET r == run[w]
        provider == Providers[r.idx]
        r1 == [r EXCEPT !.called = Append(@, provider), !.answers = Append(@, answer)]
        fetched == EncodeAll(provider, feed)
    IN
    /\ r.pc = "fetch"
    /\ answer = "articles" => feed # << >>
    /\ IF answer = "429"
       THEN LET out == RateLimitHandler(queue, MessageOf(r))
            IN  /\ queue' = out.queue
                /\ run' = [run EXCEPT ![w] = Ended(r1, out, queue)]
       ELSE IF answer = "articles"
       THEN /\ LET articles == IF r.latest THEN _filter_recent_articles(fetched, now)
                               ELSE fetched
               IN  run' = [run EXCEPT ![w] =
                             [r1 EXCEPT !.pc = "process",
                                        !.batch = deduped_articles(articles)]]
            /\ UNCHANGED queue
       ELSE IF r.idx < Len(Providers)
       THEN /\ run' = [run EXCEPT ![w] = [r1 EXCEPT !.idx = r.idx + 1]]
            /\ UNCHANGED queue
       ELSE /\ run' = [run EXCEPT ![w] = NoArticles(r1)]
            /\ UNCHANGED queue
    /\ UNCHANGED << store, now, submitted, execs, feed, scorer, limiter, fusion >>

\* One iteration of phase 2 of _process_articles (lines 272-326).
ProcessArticle(w, modelReady, dbOk) ==
    LET r == run[w]
        article == Head(r.batch)
        title == normalize_title(RawTitle(article))
        published_at == _parse_date(article)
        result == analyze_sentiment(article, title, modelReady)
        rest == [r EXCEPT !.batch = Tail(@), !.enriched = @ + 1]
    IN
    /\ r.pc = "process"
    /\ r.batch # << >>
    /\ IF article.summary = NULL      \* None[:500] raises TypeError
       THEN /\ run' = [run EXCEPT ![w] = rest]
            /\ UNCHANGED store
       ELSE IF ~dbOk                  \* OperationalError from the database
       THEN /\ run' = [run EXCEPT ![w] = rest]
            /\ UNCHANGED store
       ELSE LET u == update_or_create(store, title_hash(title, published_at.ms), r.symbol,
                                      Defaults(article, title, published_at.ms, result))
            IN  /\ store' = u.st
                /\ run' = [run EXCEPT ![w] =
                             IF u.err = "IntegrityError" THEN [rest EXCEPT !.dup = @ + 1]
                             ELSE IF u.err # "none" THEN rest
                             ELSE IF u.created
                                  THEN [rest EXCEPT !.new = @ + 1, !.wrote = @ + 1]
                                  ELSE [rest EXCEPT !.dup = @ + 1, !.wrote = @ + 1]]
    /\ UNCHANGED << now, queue, submitted, execs, feed, scorer, limiter, fusion >>

\* _write_log and the success return (lines 218-224).
Finish(w, logOk) ==
    LET r == run[w]
    IN
    /\ r.pc = "process"
    /\ r.batch = << >>
    /\ IF logOk
       THEN /\ run' = [run EXCEPT ![w] =
                         [r EXCEPT !.pc = "done", !.kind = "returned", !.status = "success"]]
            /\ UNCHANGED queue
       ELSE LET out == OuterHandler(queue, MessageOf(r), "OSError")
            IN  /\ queue' = out.queue
                /\ run' = [run EXCEPT ![w] = Ended(r, out, queue)]
    /\ UNCHANGED << store, now, submitted, execs, feed, scorer, limiter, fusion >>

\* one worker: executions follow each other
SeqWorkers == {"w1"}

Quiet == queue = EmptyBag /\ \A w \in Workers : run[w].pc \in {"idle", "done"}

\* Ingestion without infrastructure faults: a provider times out or answers
\* with articles; the database, the log file and the sentiment model work.
\* Requests are made one after the other.
Next ==
    \/ \E s \in Symbols, l \in BOOLEAN : Quiet /\ Submit(s, l)
    \/ Tick
    \/ \E w \in SeqWorkers, m \in BagToSet(queue) : Start(w, m, TRUE)
    \/ \E w \in SeqWorkers, a \in {"error", "articles"} : CallProvider(w, a)
    \/ \E w \in SeqWorkers : ProcessArticle(w, TRUE, TRUE)
    \/ \E w \in SeqWorkers : Finish(w, TRUE)

Spec == Init /\ [][Next]_vars

\* The provider chain and the retries of one request: every answer of a
\* provider, a database and a log file that can fail, a short feed.
RetryFeeds == {<< >>, << StoryUp >>, << StoryOld >>, << StoryNullSummary >>}

InitRetry == InitWith(RetryFeeds)

Answers == {"empty", "error", "429", "articles"}

NextRetry ==
    \/ \E l \in BOOLEAN : submitted = 0 /\ Submit("IBM", l)
    \/ Tick
    \/ \E w \in SeqWorkers, m \in BagToSet(queue), d \in BOOLEAN : Start(w, m, d)
    \/ \E w \in SeqWorkers, a \in Answers : CallProvider(w, a)
    \/ \E w \in SeqWorkers, d \in BOOLEAN : ProcessArticle(w, TRUE, d)
    \/ \E w \in SeqWorkers, l \in BOOLEAN : Finish(w, l)

SpecRetry == InitRetry /\ [][NextRetry]_vars

\* One request on an empty store, without faults, over the longer feeds.
InitBatch == InitWith(BatchFeeds)

NextBatch ==
    \/ \E s \in Symbols, l \in BOOLEAN : submitted = 0 /\ Submit(s, l)
    \/ Tick
    \/ \E w \in SeqWorkers, m \in BagToSet(queue) : Start(w, m, TRUE)
    \/ \E w \in SeqWorkers, a \in {"error", "articles"} : CallProvider(w, a)
    \/ \E w \in SeqWorkers : ProcessArticle(w, TRUE, TRUE)
    \/ \E w \in SeqWorkers : Finish(w, TRUE)

SpecBatch == InitBatch /\ [][NextBatch]_vars

\* The provider serves another list at the next request.
Republish(stories) ==
    /\ stories # feed
    /\ feed' = stories
    /\ UNCHANGED << store, now, queue, run, submitted, execs, scorer, limiter, fusion >>

\* the failed calls in a row before the call that starts now, counted up to
\* one past the threshold
NextStreak(sc) ==
    IF sc.failed THEN Min(sc.streak + 1, failure_threshold + 1) ELSE 0

\* whether a load succeeds is an input only when a load can be attempted
Loading(tokOk, modOk) ==
    (scorer.tokenizer = "loaded" /\ scorer.model = "loaded") => (tokOk /\ modOk)

\* utils.analyze_sentiment(text)
AnalyzeSentiment(text, tokOk, modOk, infer) ==
    LET v == validate_model(scorer.tokenizer, scorer.model, tokOk, modOk)
        invoked == v.ok /\ StrippedLen(text) >= MIN_TEXT_LENGTH
        result == score_text(StrippedLen(text), v.ok, infer, text.finbert)
    IN
    /\ scorer.call.pc = "idle"
    /\ Loading(tokOk, modOk)
    /\ ~invoked => infer = "ok"
    /\ scorer' = [scorer EXCEPT
                     !.tokenizer = v.tokenizer, !.model = v.model,
                     !.streak = NextStreak(scorer),
                     !.failed = ~v.ok \/ (invoked /\ infer # "ok"),
                     !.call = [NoCall EXCEPT !.fn = "analyze_sentiment",
                                             !.texts = << text >>,
                                             !.results = << result >>,
                                             !.valid = v.ok,
                                             !.infer = IF invoked THEN infer ELSE "none",
                                             !.invoked = IF invoked THEN 1 ELSE 0]]
    /\ UNCHANGED << store, now, queue, run, submitted, execs, feed, limiter, fusion >>

\* utils.analyze_batch(texts) up to the chunk loop
AnalyzeBatch(texts, tokOk, modOk) ==
    LET v == validate_model(scorer.tokenizer, scorer.model, tokOk, modOk)
        call == [NoCall EXCEPT !.fn = "analyze_batch", !.texts = texts, !.valid = v.ok]
    IN
    /\ scorer.call.pc = "idle"
    /\ Loading(tokOk, modOk)
    /\ scorer' = [scorer EXCEPT
                     !.tokenizer = v.tokenizer, !.model = v.model,
                     !.streak = NextStreak(scorer),
                     !.failed = ~v.ok,
                     !.call = IF ~v.ok \/ texts = << >>
                              THEN [call EXCEPT !.results = Neutrals(Len(texts))]
                              ELSE [call EXCEPT !.pc = "batch"]]
    /\ UNCHANGED << store, now, queue, run, submitted, execs, feed, limiter, fusion >>

\* One iteration of the chunk loop of analyze_batch. On an out-of-memory
\* error the batch size is halved and analyze_batch(texts) is called again:
\* the model being cached, validate_model() passes and the loop starts over.
BatchChunk(infer) ==
    LET call == scorer.call
        n == Len(call.texts)
        to == Min(call.i + scorer.batch_size, n)
        after == [call EXCEPT !.i = to, !.invoked = @ + 1, !.infer = infer,
                              !.pc = IF to >= n THEN "idle" ELSE "batch"]
    IN
    /\ call.pc = "batch"
    /\ infer = "oom" => call.ooms < MaxOom
    /\ scorer' =
         CASE infer = "ok" ->
                [scorer EXCEPT !.call = [after EXCEPT !.results =
                                           @ \o ChunkResults(call.texts, call.i + 1, to)]]
           [] infer = "oom" ->
                [scorer EXCEPT !.batch_size = IF @ \div 2 > 1 THEN @ \div 2 ELSE 1,
                               !.call = [call EXCEPT !.i = 0, !.results = << >>,
                                                     !.invoked = @ + 1, !.infer = infer,
                                                     !.ooms = @ + 1]]
           [] OTHER ->
                [scorer EXCEPT !.failed = TRUE,
                               !.call = [after EXCEPT !.results =
                                           @ \o Neutrals(to - call.i)]]
    /\ UNCHANGED << store, now, queue, run, submitted, execs, feed, limiter, fusion >>

\* The scorer on its own: texts around the minimum length, a model and a
\* tokenizer that may fail to load, inference that may fail.
ScorerTexts ==
    {ScorerText(0, 0, "Neutral", 60), ScorerText(30, 0, "Neutral", 60),
     ScorerText(0, MIN_TEXT_LENGTH - 1, "Positive", 90),
     ScorerText(5, MIN_TEXT_LENGTH - 1, "Positive", 90),
     ScorerText(0, MIN_TEXT_LENGTH, "Positive", 90),
     ScorerText(2, MIN_TEXT_LENGTH + 5, "Negative", 80)}

BatchTexts ==
    {ScorerText(0, MIN_TEXT_LENGTH - 1, "Positive", 90),
     ScorerText(2, MIN_TEXT_LENGTH + 5, "Negative", 80)}

Outcomes == {"ok", "oom", "error"}

InitScorer ==
    /\ Quiescent({<< >>})
    /\ \E t, m \in BOOLEAN :
           LET v == validate_model("unloaded", "unloaded", t, m)
           IN  scorer = ScorerIdle(v.tokenizer, v.model)
    /\ limiter = LimiterIdle(2)
    /\ fusion = FusionIdle

NextScorer ==
    \/ \E text \in ScorerTexts, t, m \in BOOLEAN, infer \in Outcomes :
           AnalyzeSentiment(text, t, m, infer)
    \/ \E texts \in SeqsUpTo(BatchTexts, MaxTexts), t, m \in BOOLEAN :
           AnalyzeBatch(texts, t, m)
    \/ \E infer \in Outcomes : BatchChunk(infer)

SpecScorer == InitScorer /\ [][NextScorer]_vars

\* The out-of-memory error persisting. analyze_batch has no retry count:
\* every out-of-memory error is answered by `return analyze_batch(texts)`,
\* one more frame on the interpreter's stack, and MaxOom such frames is where
\* the stack is exhausted here. The RecursionError is raised at whichever
\* call first needs a frame that is not there: inside the try of the deepest
\* frame (the tokenizer's or the model's call), where `except Exception`
\* takes it for a failed chunk and answers neutral, or outside it
\* (validate_model(), logger.warning() in the out-of-memory handler,
\* logger.error() in the other), from where it leaves every frame and
\* analyze_batch ends with the exception. Which one depends on how deep the
\* installed tokenizer, model and log handlers call.
StackExhausted(escapes) ==
    LET call == scorer.call
        n == Len(call.texts)
        to == Min(call.i + scorer.batch_size, n)
    IN
    /\ call.pc = "batch"
    /\ call.ooms = MaxOom
    /\ scorer' =
         IF escapes
         THEN [scorer EXCEPT !.failed = TRUE,
                             !.call = [call EXCEPT !.results = << >>,
                                                   !.infer = "RecursionError",
                                                   !.raised = TRUE,
                                                   !.pc = "raised"]]
         ELSE [scorer EXCEPT !.failed = TRUE,
                             !.call = [call EXCEPT !.i = to,
                                                   !.infer = "RecursionError",
                                                   !.results = @ \o Neutrals(to - call.i),
                                                   !.pc = IF to >= n THEN "idle" ELSE "batch"]]
    /\ UNCHANGED << store, now, queue, run, submitted, execs, feed, limiter, fusion >>

\* analyze_batch on its own, the out-of-memory error free to persist. The
\* call is synchronous: once entered, its loop goes on until it returns or
\* raises.
ChunkStep ==
    \/ \E infer \in Outcomes : BatchChunk(infer)
    \/ \E escapes \in BOOLEAN : StackExhausted(escapes)

NextOom ==
    \/ \E texts \in SeqsUpTo(BatchTexts, MaxTexts), t, m \in BOOLEAN :
           AnalyzeBatch(texts, t, m)
    \/ \E infer \in Outcomes : BatchChunk(infer)
    \/ \E escapes \in BOOLEAN : StackExhausted(escapes)

SpecOom == InitScorer /\ [][NextOom]_vars /\ WF_vars(ChunkStep)

\* the clock steps by half a minute
HalfMinute == RATE_LIMIT_PERIOD \div 2

AllIdle == \A c \in Callers : limiter.callers[c].pc = "idle"

\* Caller c calls finbert_sentiment.analyze_sentiment, no other caller being
\* inside check_rate_limit.
AnalyzeText(c, outcome) ==
    /\ AllIdle
    /\ LET chk == check_rate_limit(limiter, now)
       IN  limiter' = [chk.lim EXCEPT !.last = Answer(c, chk.ok, outcome)]
    /\ UNCHANGED << store, now, queue, run, submitted, execs, feed, scorer, fusion >>

\* Half a minute passes.
Advance ==
    /\ AllIdle
    /\ now < T0 + MaxHalfMinutes * HalfMinute
    /\ now' = now + HalfMinute
    /\ limiter' = [limiter EXCEPT
                      !.hist = [k \in 1..Len(@) |-> IF k = 1 THEN 0 ELSE @[k - 1]]]
    /\ UNCHANGED << store, queue, run, submitted, execs, feed, scorer, fusion >>

\* check_rate_limit up to the comparison: cache.get, and the refusal when
\* the value read is at the limit. More than RATE_LIMIT_MAX_REQUESTS + 1
\* accepted calls are not followed further.
ReadCounter(c) ==
    LET seen == current_count(limiter, now)
    IN
    /\ limiter.callers[c].pc = "idle"
    /\ limiter.hist[1] <= RATE_LIMIT_MAX_REQUESTS
    /\ limiter' =
         IF seen >= RATE_LIMIT_MAX_REQUESTS
         THEN [limiter EXCEPT !.last = Answer(c, FALSE, "ok")]
         ELSE [limiter EXCEPT !.callers[c] = [pc |-> "read", seen |-> seen]]
    /\ UNCHANGED << store, now, queue, run, submitted, execs, feed, scorer, fusion >>

\* check_rate_limit from cache.set on, and the rest of analyze_sentiment
WriteCounter(c, outcome) ==
    /\ limiter.callers[c].pc = "read"
    /\ limiter' = [Accept(limiter, limiter.callers[c].seen + 1, now) EXCEPT
                      !.callers[c] = [pc |-> "idle", seen |-> 0],
                      !.last = Answer(c, TRUE, outcome)]
    /\ UNCHANGED << store, now, queue, run, submitted, execs, feed, scorer, fusion >>

\* One caller calling analyze_sentiment again and again while time passes.
InitLimiter ==
    /\ Quiescent({<< >>})
    /\ scorer = ScorerIdle("loaded", "loaded")
    /\ limiter = LimiterIdle(2)
    /\ fusion = FusionIdle

NextLimiter ==
    \/ \E outcome \in {"invalid", "ok"} : AnalyzeText("c1", outcome)
    \/ Advance

SpecLimiter == InitLimiter /\ [][NextLimiter]_vars

\* One caller who has no more than MaxPerInstant calls accepted at one
\* reading of the clock; the calls of the last 60 seconds are on record
\* (three readings of the clock).
InitWindow ==
    /\ Quiescent({<< >>})
    /\ scorer = ScorerIdle("loaded", "loaded")
    /\ limiter = LimiterIdle(3)
    /\ fusion = FusionIdle

NextWindow ==
    \/ limiter.hist[1] < MaxPerInstant /\ AnalyzeText("c1", "ok")
    \/ Advance

SpecWindow == InitWindow /\ [][NextWindow]_vars

\* Two callers inside check_rate_limit at once, at one instant.
NextRace ==
    \/ \E c \in Callers : ReadCounter(c)
    \/ \E c \in Callers : WriteCounter(c, "ok")

SpecRace == InitLimiter /\ [][NextRace]_vars

\* Reports of one headline at publish times around the half minutes, asked
\* for without the recency filter, the provider's list changing between the
\* requests.
StampFeeds == SeqsUpTo(StampStories, MaxBatch)

InitStamp == InitWith(StampFeeds)

NextStamp ==
    \/ Quiet /\ Submit("IBM", FALSE)
    \/ \E f \in SeqsUpTo(StampStories, 1) : Quiet /\ submitted > 0 /\ Republish(f)
    \/ \E w \in SeqWorkers, m \in BagToSet(queue) : Start(w, m, TRUE)
    \/ \E w \in SeqWorkers, a \in {"error", "articles"} : CallProvider(w, a)
    \/ \E w \in SeqWorkers : ProcessArticle(w, TRUE, TRUE)
    \/ \E w \in SeqWorkers : Finish(w, TRUE)

SpecStamp == InitStamp /\ [][NextStamp]_vars

\* ------------------------------------------------------------------------
\* One opinion request: the symbol and what the outside serves are drawn at
\* the start, generate_stock_opinion_sync runs once
\* ------------------------------------------------------------------------

MaxArticles == 2

FusionSymbols ==
    { << "I", "B", "M" >>, << "i", "b", "m" >>, << "B", "R", "K", "1" >>,
      << "B", "F", ".", "B" >>, << >>, << "G", "O", "O", "G", "L", "E" >>,
      << "I", "B", "M", "\n" >> }

PriceFeeds ==
    {NoPrices} \cup
    {Prices(p, 100, s, Regime(r, 80)) :
        p \in {95, 105}, s \in {95, 100, 110}, r \in {"bull", "bear", "neutral"}}

NewsArticles ==
    { Article("naive", 0, "positive", 90, 100, "Blog", {}),
      Article("naive", 0, "positive", 50, 100, "Blog", {}),
      Article("naive", 0, "negative", 90, 100, "Reuters", {}),
      Article("naive", 1, "Neutral", 50, 50, "CNBC", {}),
      Article("naive", 0, "mixed", 90, 100, "Wire", {}),
      Article("garbled", 0, "positive", 10, 100, "Gazette", {}),
      Article("aware", 0, "negative", 90, 100, "Bloomberg", {}),
      Article("naive", 0, "positive", 0, 100, "Reuters", {"confidence"}) }

NewsFeeds == SeqsUpTo(NewsArticles, MaxArticles)

GenerateStockOpinionSync ==
    /\ fusion.pc = "called"
    /\ fusion' = [pc |-> "returned", symbol |-> fusion.symbol, data |-> fusion.data,
                  news |-> fusion.news, answer |-> fusion.answer,
                  out |-> generate_stock_opinion_sync(fusion.symbol, fusion.data,
                                                      fusion.news, fusion.answer)]
    /\ UNCHANGED << store, now, queue, run, submitted, execs, feed, scorer, limiter >>

InitFusion ==
    /\ Quiescent({<< >>})
    /\ scorer = ScorerIdle("loaded", "loaded")
    /\ limiter = LimiterIdle(2)
    /\ fusion \in {FusionCall(symbol, data, news, answer) :
                     symbol \in FusionSymbols, data \in PriceFeeds,
                     news \in NewsFeeds, answer \in LlmAnswers}

NextFusion == GenerateStockOpinionSync

SpecFusion == InitFusion /\ [][NextFusion]_vars

\* ------------------------------------------------------------------------
\* Two workers at once. An iteration of phase 2 is two steps: the article is
\* scored and update_or_create looks for its row (lines 273-313), then the
\* row is created or updated and counted (lines 313-324). The database
\* executes one statement at a time and enforces the unique constraint.
\* ------------------------------------------------------------------------

LookUp(w, modelReady) ==
    LET r == run[w]
        article == Head(r.batch)
        title == normalize_title(RawTitle(article))
        published_at == _parse_date(article)
    IN
    /\ r.pc = "process"
    /\ r.batch # << >>
    /\ IF article.summary = NULL      \* None[:500] raises TypeError
       THEN run' = [run EXCEPT ![w] = [r EXCEPT !.batch = Tail(@), !.enriched = @ + 1]]
       ELSE run' = [run EXCEPT ![w] =
                      [r EXCEPT !.pc = "write",
                                !.scored = analyze_sentiment(article, title, modelReady),
                                !.seen = Matching(store, title_hash(title, published_at.ms),
                                                  r.symbol) # {}]]
    /\ UNCHANGED << store, now, queue, submitted, execs, feed, scorer, limiter, fusion >>

WriteRow(w) ==
    LET r == run[w]
        article == Head(r.batch)
        title == normalize_title(RawTitle(article))
        published_at == _parse_date(article)
        rest == [r EXCEPT !.pc = "process", !.batch = Tail(@), !.enriched = @ + 1]
        u == update_or_create_after_get(store, title_hash(title, published_at.ms), r.symbol,
                                        Defaults(article, title, published_at.ms, r.scored),
                                        r.seen)
    IN
    /\ r.pc = "write"
    /\ store' = u.st
    /\ run' = [run EXCEPT ![w] =
                 IF u.err = "IntegrityError" THEN [rest EXCEPT !.dup = @ + 1]
                 ELSE IF u.err # "none" THEN rest
                 ELSE IF u.created THEN [rest EXCEPT !.new = @ + 1, !.wrote = @ + 1]
                 ELSE [rest EXCEPT !.dup = @ + 1, !.wrote = @ + 1]]
    /\ UNCHANGED << now, queue, submitted, execs, feed, scorer, limiter, fusion >>

InitConcurrent == InitWith(Feeds)

NextConcurrent ==
    \/ Submit("IBM", FALSE)
    \/ \E w \in Workers, m \in BagToSet(queue) : Start(w, m, TRUE)
    \/ \E w \in Workers, a \in {"error", "articles"} : CallProvider(w, a)
    \/ \E w \in Workers, modelReady \in BOOLEAN : LookUp(w, modelReady)
    \/ \E w \in Workers : WriteRow(w)
    \/ \E w \in Workers : Finish(w, TRUE)

SpecConcurrent == InitConcurrent /\ [][NextConcurrent]_vars

\* ------------------------------------------------------------------------
\* Runs one after the other over feeds with an article that has no summary
\* and one that has no banner image
\* ------------------------------------------------------------------------

CountFeeds == SeqsUpTo({StoryUp, StoryOld, StoryNullSummary, StoryNullBanner}, MaxBatch)

InitCounts == InitWith(CountFeeds)

NextCounts ==
    \/ \E l \in BOOLEAN : Quiet /\ Submit("IBM", l)
    \/ Tick
    \/ \E w \in SeqWorkers, m \in BagToSet(queue) : Start(w, m, TRUE)
    \/ \E w \in SeqWorkers, a \in {"error", "articles"} : CallProvider(w, a)
    \/ \E w \in SeqWorkers : ProcessArticle(w, TRUE, TRUE)
    \/ \E w \in SeqWorkers : Finish(w, TRUE)

SpecCounts == InitCounts /\ [][NextCounts]_vars

\* ------------------------------------------------------------------------
\* Properties
\* ------------------------------------------------------------------------

\* worker w begins an execution in this step
Begins(w) ==
    /\ run'[w] # run[w]
    /\ run'[w].req # 0
    /\ execs'[run'[w].req] = execs[run'[w].req] + 1

\* the stored rows of a symbol published no more than 24 hours before the
\* clock, counted directly on the store
RecentRowCount(symbol) ==
    LET recent == {r \in BagToSet(store) :
                     r.symbol = symbol /\ now * 1000 - r.published_at <= 24 * 3600 * 1000}
    IN  BagCardinality([r \in recent |-> CopiesIn(r, store)])

\* C8 as stated: an execution that finds a recent stored article of its
\* symbol returns success with new_articles = 0 and duplicates = 0.
C8_ZeroCounts ==
    \A w \in Workers :
        (run[w].pc = "done" /\ run[w].cacheHit) =>
            /\ run[w].kind = "returned" /\ run[w].status = "success"
            /\ run[w].new = 0
            /\ run[w].dup = 0

\* C8 amended: an execution that begins while the store holds at least one
\* article of its symbol published within the last 24 hours returns success
\* with new_articles = 0 and duplicates = the number of those articles (at
\* most MAX_ARTICLES), hence at least 1.
C8_CachedCounts ==
    [][\A w \in Workers :
         (Begins(w) /\ RecentRowCount(run'[w].symbol) >= 1) =>
             /\ run'[w].pc = "done"
             /\ run'[w].kind = "returned" /\ run'[w].status = "success"
             /\ run'[w].new = 0
             /\ run'[w].dup >= 1
             /\ run'[w].dup = Min(RecentRowCount(run'[w].symbol), MAX_ARTICLES)]_vars

\* a cache hit that counts one recent row while an older row of the same
\* symbol is stored too
C8_Witness ==
    \E w \in Workers :
        /\ run[w].pc = "done" /\ run[w].cacheHit
        /\ run[w].dup = 1
        /\ Cardinality({r \in BagToSet(store) : r.symbol = run[w].symbol}) = 2

\* C9: an execution that begins while the store holds at least one article
\* of its symbol published within the last 24 hours ends at once: it calls
\* no provider, enriches no article and leaves the store as it was.
C9_ShortCircuit ==
    [][\A w \in Workers :
         (Begins(w) /\ RecentRowCount(run'[w].symbol) >= 1) =>
             /\ run'[w].pc = "done"
             /\ run'[w].called = << >>
             /\ run'[w].enriched = 0 /\ run'[w].wrote = 0
             /\ store' = store]_vars

\* a short-circuited execution of a request made after an ingestion that
\* stored something
C9_Witness ==
    \E w \in Workers :
        /\ run[w].pc = "done" /\ run[w].cacheHit
        /\ run[w].prev.ingested /\ run[w].prev.new >= 1
        /\ run[w].called = << >> /\ run[w].enriched = 0

\* the provider whose answer the execution r used last
LastProvider(r) == IF r.called = << >> THEN "" ELSE r.called[Len(r.called)]

\* the payload that provider serves
PayloadOf(provider) == EncodeAll(provider, feed)

RecentAt(article, t) ==
    _parse_date(article) # NULL /\ t * 1000 - _parse_date(article).ms <= 24 * 3600 * 1000

\* r is the second of two executions in succession for the same symbol, with
\* the same flag and the same payload (the same provider answering, or none
\* asked because of the cache short-circuit); the first one ingested
Repeats(r) ==
    /\ r.pc = "done" /\ r.kind = "returned" /\ r.status = "success"
    /\ r.prev.ingested
    /\ r.prev.symbol = r.symbol /\ r.prev.latest = r.latest
    /\ (r.cacheHit \/ LastProvider(r) = r.prev.provider)

UniqueKeys ==
    /\ \A r \in BagToSet(store) : CopiesIn(r, store) = 1
    /\ \A r1, r2 \in BagToSet(store) :
           (r1.title_hash = r2.title_hash /\ r1.symbol = r2.symbol) => r1 = r2

\* worker w passes one article through phase 2 in this step
Processes(w) ==
    /\ run[w].pc = "process"
    /\ run'[w].enriched = run[w].enriched + 1

\* a step that processes an article whose key is stored already keeps the
\* number of rows, leaves the other rows alone, puts the article's data in
\* the row of its key, counts a duplicate and lets the run go on
UpsertInPlace ==
    \A w \in Workers :
        LET article == Head(run[w].batch)
            key == ArticleHash(article)
            mine(st) == {r \in BagToSet(st) :
                           r.title_hash = key /\ r.symbol = run[w].symbol}
        IN  (/\ Processes(w)
             /\ article.summary # NULL
             /\ mine(store) # {}) =>
                /\ BagCardinality(store') = BagCardinality(store)
                /\ BagToSet(store') \ mine(store') = BagToSet(store) \ mine(store)
                /\ \A r \in mine(store') : r.raw_data = article
                /\ run'[w].dup = run[w].dup + 1 /\ run'[w].new = run[w].new
                /\ run'[w].pc = "process"

\* C2: the store never holds two rows with the same (title_hash, symbol), and
\* processing an article whose key is present updates that row in place;
\* the run is not ended by it.
C2_UniqueUpsert == [] UniqueKeys /\ [][UpsertInPlace]_vars

\* a run has rewritten, with what Yahoo served, a row that an earlier run
\* had created from Alpha Vantage's answer
C2_Witness ==
    \E w \in Workers :
        /\ Ingested(run[w]) /\ LastProvider(run[w]) = "yahoo"
        /\ run[w].prev.ingested /\ run[w].prev.symbol = run[w].symbol
        /\ run[w].prev.provider = "alphavantage" /\ run[w].prev.new = 1
        /\ run[w].dup = 1
        /\ \E r \in BagToSet(store) : r.symbol = run[w].symbol /\ Truthy(r.raw_data.pubDate)
        /\ BagCardinality(store) = 1

\* C3 as stated: an article ingested a second time for the same symbol from a
\* different provider (another title field, another time encoding) gets the
\* same fingerprint: one row is stored and the second run reports
\* duplicates = 1 and new_articles = 0.
C3_CrossProvider ==
    \A w \in Workers :
        LET r == run[w]
        IN  (/\ Ingested(r) /\ r.prev.ingested
             /\ r.prev.symbol = r.symbol
             /\ ~r.latest /\ ~r.prev.latest
             /\ LastProvider(r) # r.prev.provider
             /\ Len(feed) = 1 /\ r.prev.new = 1) =>
                /\ r.new = 0 /\ r.dup = 1
                /\ Cardinality({x \in BagToSet(store) : x.symbol = r.symbol}) = 1

\* the number of rows a first run on an empty store creates from `articles`:
\* the distinct fingerprints whose first occurrence has a text for a summary
ExpectedNew(articles) ==
    LET usable == {i \in 1..Len(articles) : Hashable(articles[i])}
        first == {i \in usable :
                    \A j \in usable : ArticleHash(articles[j]) = ArticleHash(articles[i])
                                        => j >= i}
    IN  Cardinality({i \in first : articles[i].summary # NULL})

RecentOnly(articles, t) == SelectSeq(articles, LAMBDA a : RecentAt(a, t))

IsPrefix(a, b) == Len(a) <= Len(b) /\ \A i \in 1..Len(a) : a[i] = b[i]

\* the provider did not deliver and was not rate limited
Passed(answer) == answer \in {"empty", "error"}

LastAnswer(r) == IF r.answers = << >> THEN "" ELSE r.answers[Len(r.answers)]

\* C4: in one execution the providers are called in the order Alpha Vantage,
\* Finnhub, Yahoo; a provider is called exactly when every provider before it
\* returned nothing or failed with an error other than 429; after an answer
\* with articles no further provider is called and the articles processed
\* are that provider's.
C4_FallbackOrder ==
    \A w \in Workers :
        LET r == run[w]
        IN  /\ IsPrefix(r.called, << "alphavantage", "finnhub", "yahoo" >>)
            /\ Len(r.answers) = Len(r.called)
            /\ \A i \in 1..Len(r.called) - 1 : Passed(r.answers[i])
            /\ (r.pc = "fetch") =>
                   /\ Len(r.called) < 3
                   /\ \A i \in 1..Len(r.called) : Passed(r.answers[i])
            /\ (r.pc # "fetch" /\ r.called # << >> /\ Passed(LastAnswer(r))) =>
                   Len(r.called) = 3
            /\ (r.pc = "process") =>
                   /\ LastAnswer(r) = "articles"
                   /\ \A i \in 1..Len(r.batch) :
                          \E j \in 1..Len(feed) :
                              r.batch[i] = Encode(LastProvider(r), feed[j])

\* the primary delivered nothing, the secondary delivered, the tertiary was
\* not called, and the run stored what the secondary served
C4_Witness ==
    \E w \in Workers :
        /\ Ingested(run[w])
        /\ run[w].called = << "alphavantage", "finnhub" >>
        /\ run[w].answers = << "empty", "articles" >>
        /\ run[w].new = 1
        /\ \E x \in BagToSet(store) : x.raw_data.headline # << >>

\* worker w gets a 429 from a provider in this step
RateLimited(w) ==
    /\ run[w].pc = "fetch"
    /\ Len(run'[w].answers) = Len(run[w].answers) + 1
    /\ LastAnswer(run'[w]) = "429"

\* C5 as stated: on a 429 the attempt does not go on to the next provider
\* and the task is retried; with the retries used up the chain goes on to
\* the next provider.
C5_FallsBackAfterRetries ==
    \A w \in Workers :
        LET r == run[w]
        IN  (LastAnswer(r) = "429") =>
                /\ (r.retries < max_retries) => (r.pc = "done" /\ r.kind = "retry")
                /\ (r.retries >= max_retries /\ Len(r.called) < Len(Providers)) =>
                       r.pc = "fetch"

\* a 429 ends the attempt without a call to a later provider; with retries
\* left the task is sent again with retries + 1 and a countdown of 60 s;
\* with none left nothing is sent and the execution is over
RateLimitStep ==
    \A w \in Workers :
        RateLimited(w) =>
            /\ run'[w].pc = "done"
            /\ Len(run'[w].called) = Len(run[w].called) + 1
            /\ (run[w].retries < max_retries) =>
                   /\ run'[w].kind = "retry"
                   /\ BagIn(Message(run[w].req, run[w].symbol, run[w].latest,
                                    run[w].retries + 1, 60), queue')
            /\ (run[w].retries >= max_retries) =>
                   /\ run'[w].kind # "retry"
                   /\ queue' = queue

\* C5 amended: a 429 ends the attempt at once, no later provider being called
\* in it; while retries are left the whole task is queued again with a 60 s
\* countdown and the retried execution starts again at the first provider;
\* once the retries are used up nothing is queued and no further provider is
\* called.
C5_RateLimitRetry ==
    /\ [] (\A w \in Workers :
              (run[w].retries > 0 /\ run[w].called # << >>) =>
                  run[w].called[1] = "alphavantage")
    /\ [][RateLimitStep]_vars

\* the last allowed execution was rate limited by the second provider and
\* ended there
C5_Witness ==
    \E w \in Workers :
        /\ run[w].pc = "done" /\ run[w].retries = max_retries
        /\ run[w].called = << "alphavantage", "finnhub" >>
        /\ LastAnswer(run[w]) = "429"
        /\ run[w].scheduled = 0

\* C6 as stated: a request is executed at most 1 + max_retries times and
\* every execution that is not retried ends by returning a result; no
\* exception leaves the task when the retries are used up.
C6_BoundedTypedResult ==
    /\ \A q \in 1..MaxRequests : execs[q] <= 1 + max_retries
    /\ \A w \in Workers :
           (run[w].pc = "done") =>
               /\ run[w].kind \in {"returned", "retry"}
               /\ (run[w].kind = "retry") => run[w].retries < max_retries

\* the chain is used up in this step: the third provider too delivers nothing
ChainExhausted(w) ==
    /\ run[w].pc = "fetch"
    /\ Len(run[w].called) = 2
    /\ Len(run'[w].called) = 3
    /\ \A i \in 1..3 : Passed(run'[w].answers[i])

\* C7: when every provider returned nothing or failed with an error other
\* than 429, the execution returns the error result: nothing is raised, no
\* retry is queued and the store is unchanged.
C7_SoftFailure ==
    [][\A w \in Workers :
         ChainExhausted(w) =>
             /\ run'[w].pc = "done"
             /\ run'[w].kind = "returned" /\ run'[w].status = "error"
             /\ run'[w].exc = "none"
             /\ queue' = queue
             /\ store' = store]_vars

\* an execution that asked all three providers in vain, one of them failing
C7_Witness ==
    \E w \in Workers :
        /\ run[w].pc = "done" /\ run[w].status = "error"
        /\ Len(run[w].called) = 3
        /\ run[w].answers = << "empty", "error", "empty" >>
        /\ run[w].scheduled = 0 /\ queue = EmptyBag

\* the store holds a row under the key of `article` for `symbol`
Stored(article, symbol) ==
    \E x \in BagToSet(store) : x.symbol = symbol /\ x.title_hash = ArticleHash(article)

\* C11: an article that cannot be processed is skipped and changes nothing
\* for the others: after a run on an empty store without the recency filter,
\* every article of the batch that has a title, a parsable date and a text
\* for a summary is in the store.
C11_OthersProcessed ==
    \A w \in Workers :
        LET r == run[w]
            payload == PayloadOf(LastProvider(r))
        IN  (Ingested(r) /\ r.req = 1 /\ ~r.latest) =>
                \A i \in 1..Len(payload) :
                    (Hashable(payload[i]) /\ payload[i].summary # NULL) =>
                        Stored(payload[i], r.symbol)

Abs(x) == IF x < 0 THEN -x ELSE x

MinuteMs == 60 * 1000

\* the article the worker processes in this step, when it can be written
Writes(w, article) ==
    /\ Processes(w)
    /\ article = Head(run[w].batch)
    /\ article.summary # NULL

\* rows of the symbol under the normalised title of the article
SameTitleRows(st, symbol, article) ==
    {x \in Rows(st) : x.symbol = symbol /\ x.title = normalize_title(RawTitle(article))}

\* C12: when an article is written while the store holds a record of the
\* same symbol and normalised title published more than 60 seconds earlier
\* or later, the two fingerprints differ: the record stays as it is and the
\* article gets a record of its own; and a record of the same title whose
\* rounded timestamp equals the article's has the article's fingerprint.
C12_Step ==
    \A w \in Workers :
        LET article == Head(run[w].batch)
            t == _parse_date(article).ms
        IN  Writes(w, article) =>
                \A x \in SameTitleRows(store, run[w].symbol, article) :
                    /\ Abs(x.published_at - t) > MinuteMs =>
                          /\ x.title_hash[2] # ArticleHash(article)[2]
                          /\ x.title_hash # ArticleHash(article)
                          /\ BagIn(x, store')
                          /\ \E y \in Rows(store') :
                                 /\ y # x
                                 /\ y.title_hash = ArticleHash(article)
                                 /\ y.published_at = t
                    /\ rounded_timestamp(x.published_at) = rounded_timestamp(t) =>
                          x.title_hash = ArticleHash(article)

C12_DistinctMinutes == [][C12_Step]_vars

\* two records of one headline, 61 seconds apart
C12_Witness ==
    \E x, y \in Rows(store) :
        /\ x.symbol = y.symbol /\ x.title = y.title
        /\ y.published_at - x.published_at = 61 * 1000
        /\ \E w \in Workers : Ingested(run[w]) /\ run[w].new > 0

\* the whole minute nearest to an instant given in milliseconds; an instant
\* on the half minute belongs to the even one
NearestMinute(ms) ==
    LET lo == ms \div MinuteMs
        near(m) == Abs(ms - m * MinuteMs)
    IN  CHOOSE m \in {lo, lo + 1} :
            \A k \in {lo, lo + 1} :
                near(m) < near(k) \/ (near(m) = near(k) /\ (m = k \/ m % 2 = 0))

\* C13 as stated: records of one symbol and normalised title whose publish
\* times are less than one minute apart are one record.
C13_JitterAbsorbed ==
    \A x, y \in Rows(store) :
        (/\ x.symbol = y.symbol /\ x.title = y.title
         /\ Abs(x.published_at - y.published_at) < MinuteMs) => x = y

OnePerMinute ==
    \A x, y \in Rows(store) :
        (/\ x.symbol = y.symbol /\ x.title = y.title
         /\ NearestMinute(x.published_at) = NearestMinute(y.published_at)) =>
            x = y /\ CopiesIn(x, store) = 1

\* writing a report whose title and nearest minute a record has already
\* rewrites that record: no row more, the report's time and data in the row,
\* one duplicate counted
RewritesSameMinute ==
    \A w \in Workers :
        LET article == Head(run[w].batch)
            t == _parse_date(article).ms
            same(st) == {x \in SameTitleRows(st, run[w].symbol, article) :
                           NearestMinute(x.published_at) = NearestMinute(t)}
        IN  (Writes(w, article) /\ same(store) # {}) =>
                /\ BagCardinality(store') = BagCardinality(store)
                /\ Rows(store') \ same(store') = Rows(store) \ same(store)
                /\ \A x \in same(store') : x.published_at = t /\ x.raw_data = article
                /\ run'[w].dup = run[w].dup + 1 /\ run'[w].new = run[w].new

\* C13 (amended): two reports with the same normalised title whose publish
\* times round to the same minute (half minutes going to the even minute)
\* have one fingerprint: the store never holds two records for them, and the
\* later report rewrites the record of the earlier one and is counted as a
\* duplicate.
C13_SameMinuteOneRecord == [](OnePerMinute) /\ [][RewritesSameMinute]_vars

\* a second request has rewritten the one record with a report of 01:00:29
C13_Witness ==
    \E w \in Workers :
        LET r == run[w]
        IN  /\ Ingested(r) /\ r.req = 2 /\ r.new = 0 /\ r.dup = 1
            /\ r.prev.ingested /\ r.prev.new = 1
            /\ feed = << Stamp(29) >>
            /\ LastProvider(r) = "alphavantage"
            /\ \E x \in Rows(store) :
                   /\ Rows(store) = {x}
                   /\ x.published_at = (3600 + 29) * 1000
                   /\ NearestMinute(x.published_at) = 60

DayMs == 24 * 3600 * 1000

\* the worker's provider call in this step answers with articles
Fetches(w) == run[w].pc = "fetch" /\ run'[w].pc = "process"

InBatch(article, batch) ==
    \E i \in 1..Len(batch) : ArticleHash(batch[i]) = ArticleHash(article)

\* what goes on to processing after a provider has answered: with the flag
\* nothing published more than 24 hours ago and every article with a title
\* and a date that is not older; without it every article with a title and
\* a date
FilterStep ==
    \A w \in Workers :
        Fetches(w) =>
            LET fetched == EncodeAll(run'[w].called[Len(run'[w].called)], feed)
                batch == run'[w].batch
                old(a) == now * 1000 - _parse_date(a).ms > DayMs
            IN  /\ \A i \in 1..Len(batch) :
                       /\ \E j \in 1..Len(fetched) : fetched[j] = batch[i]
                       /\ run[w].latest => ~old(batch[i])
                /\ \A j \in 1..Len(fetched) :
                       (Hashable(fetched[j]) /\ (run[w].latest => ~old(fetched[j]))) =>
                           InBatch(fetched[j], batch)

\* only the article being processed is written, under its own publish time,
\* and an article with a text for a summary is written and counted
WriteStep ==
    \A w \in Workers :
        LET article == Head(run[w].batch)
        IN  Processes(w) =>
                /\ \A x \in Rows(store') \ Rows(store) :
                       x.raw_data = article /\ x.published_at = _parse_date(article).ms
                /\ (run'[w].new + run'[w].dup) - (run[w].new + run[w].dup) \in {0, 1}
                /\ article.summary # NULL =>
                       /\ \E x \in Rows(store') :
                              x.raw_data = article /\ x.symbol = run[w].symbol
                       /\ run'[w].new + run'[w].dup = run[w].new + run[w].dup + 1

Degraded(call) ==
    /\ call.fn = "analyze_sentiment"
    /\ \/ StrippedLen(call.texts[1]) < MIN_TEXT_LENGTH
       \/ ~call.valid
       \/ call.infer \in {"oom", "error"}

\* C15: analyze_sentiment returns exactly {label: neutral, score: 0.0} and
\* raises nothing when the text is empty or whitespace only, when the
\* stripped text is shorter than the minimum length, when the model or the
\* tokenizer cannot be loaded and when inference raises.
C15_Degrades ==
    Degraded(scorer.call) =>
        /\ scorer.call.results = << [label |-> "neutral", score |-> 0] >>
        /\ ~scorer.call.raised

\* a text of five blanks and 24 letters was answered with neutral although
\* the model was loaded
C15_Witness ==
    /\ scorer.call.fn = "analyze_sentiment"
    /\ scorer.call.valid
    /\ Len(scorer.call.texts[1].chars) > MIN_TEXT_LENGTH
    /\ StrippedLen(scorer.call.texts[1]) = MIN_TEXT_LENGTH - 1
    /\ scorer.call.results = << [label |-> "neutral", score |-> 0] >>

\* C16: after failure_threshold failed scoring calls in a row, and before
\* any cooldown has passed (the clock stands still), analyze_sentiment does
\* not call the model and answers {neutral, 0.0}.
C16_BreakerOpens ==
    (/\ scorer.call.fn = "analyze_sentiment"
     /\ scorer.streak >= failure_threshold
     /\ now = T0) =>
        /\ scorer.call.invoked = 0
        /\ scorer.call.results = << NEUTRAL_RESULT >>

\* calls accepted at this reading of the clock and the one before: the
\* calls of a 60-second span
SpanAccepted(lim) == lim.hist[1] + lim.hist[2]

\* a call made when the span holds the maximum already is refused at once:
\* the counter, its timeout and the record of accepted calls stay as they
\* are and the model is not called
FurtherCallRefused ==
    (/\ SpanAccepted(limiter) >= RATE_LIMIT_MAX_REQUESTS
     /\ now' = now
     /\ limiter' # limiter) =>
        /\ limiter'.last.result = "Rate limit exceeded"
        /\ ~limiter'.last.invoked
        /\ limiter' = [limiter EXCEPT !.last = limiter'.last]

\* C17: calls being made one after the other, at most
\* RATE_LIMIT_MAX_REQUESTS are accepted within any 60-second span, and a
\* further call in the span is answered 'Rate limit exceeded' without the
\* model being called.
C17_Cap ==
    /\ [](SpanAccepted(limiter) <= RATE_LIMIT_MAX_REQUESTS)
    /\ [](limiter.last.result = "Rate limit exceeded" => ~limiter.last.invoked)
    /\ [][FurtherCallRefused]_vars

\* a call refused after the hundred calls of two successive instants
C17_Witness ==
    /\ limiter.last.result = "Rate limit exceeded"
    /\ limiter.hist[1] > 0 /\ limiter.hist[2] > 0
    /\ SpanAccepted(limiter) = RATE_LIMIT_MAX_REQUESTS

\* calls accepted at this reading of the clock and the two before it: the
\* calls of the last 60 seconds, those made exactly 60 seconds ago included
WindowAccepted(lim) == lim.hist[1] + lim.hist[2] + lim.hist[3]

\* C18: a call is answered 'Rate limit exceeded' only if
\* RATE_LIMIT_MAX_REQUESTS calls were accepted during the 60 seconds before
\* it.
C18_RollingWindow ==
    limiter.last.result = "Rate limit exceeded" =>
        WindowAccepted(limiter) >= RATE_LIMIT_MAX_REQUESTS

\* C19: with callers inside check_rate_limit at the same time, the calls
\* accepted at one instant never exceed RATE_LIMIT_MAX_REQUESTS, and once
\* they have all returned the counter holds the number of accepted calls.
C19_CountedOnce ==
    /\ limiter.hist[1] <= RATE_LIMIT_MAX_REQUESTS
    /\ AllIdle => current_count(limiter, now) = limiter.hist[1]

\* the answer FinBERT gives for a text, as analyze_batch reports it
OwnAnswer(text) ==
    [label |-> LabelLower(text.finbert.label), score |-> text.finbert.score]

\* C20: analyze_batch returns one result per input, result i being input
\* i's own answer or the neutral result, also after an unavailable model, a
\* failed chunk or an out-of-memory retry; and an input shorter than the
\* minimum text length has the neutral result at its position.
C20_OneToOne ==
    (scorer.call.fn = "analyze_batch" /\ scorer.call.pc = "idle") =>
        LET texts == scorer.call.texts
            results == scorer.call.results
        IN  /\ Len(results) = Len(texts)
            /\ \A i \in 1..Len(texts) :
                   /\ i <= Len(results) =>
                          results[i] \in {OwnAnswer(texts[i]), NEUTRAL_RESULT}
                   /\ (i <= Len(results) /\ StrippedLen(texts[i]) < MIN_TEXT_LENGTH) =>
                          results[i] = NEUTRAL_RESULT

\* ------------------------------------------------------------------------
\* Fusion engine properties
\* ------------------------------------------------------------------------

Returned == fusion.pc = "returned"

\* the request made the named call to the outside
Called(name) == \E i \in DOMAIN fusion.out.calls : fusion.out.calls[i] = name

IsError(result) == result.error # ""

\* C21: when no price data can be had, analyze returns the neutral snapshot
\* (current price 0, regime neutral at confidence 50) and full_analysis
\* returns an error result without fetching news, aggregating sentiment or
\* calling the language model.
C21_DegradedStops ==
    (Returned /\ fusion.out.stage # "rejected" /\ fusion.data.empty) =>
        /\ fusion.out.technicals.current_price = 0
        /\ fusion.out.technicals.market_regime = Regime("neutral", 50)
        /\ IsError(fusion.out.result)
        /\ fusion.out.stage = "degraded"
        /\ ~Called("news") /\ ~Called("llm")

C21_Witness ==
    /\ Returned /\ fusion.out.stage = "degraded" /\ fusion.data.empty
    /\ fusion.news # << >>
    /\ fusion.out.result = _error_response("Technical analysis failed")
    /\ fusion.out.calls = << "prices" >>

AlnumChars == UpperLetters \cup {"1"}

\* C22: generate_stock_opinion_sync rejects a symbol exactly when, after
\* uppercasing, it is not 1 to 5 alphanumeric characters; a rejected symbol
\* yields an error result and no call to the outside is made for it.
C22_SymbolValidation ==
    Returned =>
        LET symbol == UpperAll(fusion.symbol)
            alnum == Len(symbol) \in 1..5 /\ \A i \in 1..Len(symbol) : symbol[i] \in AlnumChars
        IN  /\ (fusion.out.stage = "rejected") <=> ~alnum
            /\ fusion.out.stage = "rejected" =>
                   IsError(fusion.out.result) /\ fusion.out.calls = << >>

Analysed == Returned /\ fusion.out.stage = "analysed"

\* the article has a publish date the loop can use and a known label
Usable(article) ==
    /\ article.published_at.kind = "naive"
    /\ LabelLower(article.sentiment) \in {"positive", "neutral", "negative"}

\* w_i, in weight units
Weight(article) ==
    article.confidence * article.source_reliability * recency(article.published_at)
        * (IF article.source \in TIER1_SOURCES THEN 2 ELSE 1)

\* sum(v_i x w_i) / sum(w_i)
WeightedMean(articles) ==
    Frac(SumSeq([i \in 1..Len(articles) |->
                    SentimentValue(LabelLower(articles[i].sentiment)) * Weight(articles[i])]),
         SumSeq([i \in 1..Len(articles) |-> Weight(articles[i])]))

\* C23: for a non-empty set of articles the aggregate score is the weighted
\* mean sum(v_i x w_i) / sum(w_i), clipped to [-1, 1], multiplied by the
\* regime factor and clipped again, so it lies in [-1, 1] (and articles that
\* are all positive give the same score whatever their confidence).
C23_WeightedMean ==
    Analysed =>
        LET articles == fusion.out.articles
            score == fusion.out.sentiment.score
            factor == Frac(regime_adjustment(fusion.out.technicals.market_regime), 10)
        IN  /\ ~FracLess(score, Frac(0 - 1, 1)) /\ ~FracLess(Frac(1, 1), score)
            /\ (/\ articles # << >>
                /\ \A i \in 1..Len(articles) : Usable(articles[i]) /\ Weight(articles[i]) > 0)
               => score = Clip(FracTimes(Clip(WeightedMean(articles)), factor))

\* the action _format_response derives from the language-model response
ActionOf(llm_response) == _normalize_recommendation(llm_response.recommendation)[1]

\* C24: whenever the language-model call fails or answers with a status other
\* than 200, the action is buy exactly when sentiment > 0.3 and price >
\* SMA200, sell exactly when sentiment < -0.3 and price < SMA200, and hold
\* otherwise; a returned recommendation carries that action. Price 105,
\* SMA200 95 and sentiment +0.5 give buy.
C24_FallbackAction ==
    (Analysed /\ fusion.answer # "200") =>
        LET technicals == fusion.out.technicals
            score == fusion.out.sentiment.score
            action == ActionOf(fusion.out.llm_response)
            up == FracLess(Frac(3, 10), score) /\ technicals.current_price > technicals.sma_200
            down == FracLess(score, Frac(0 - 3, 10))
                        /\ technicals.current_price < technicals.sma_200
        IN  /\ action = "buy" <=> up
            /\ action = "sell" <=> down
            /\ action = "hold" <=> (~up /\ ~down)
            /\ ~IsError(fusion.out.result) =>
                   /\ fusion.out.result.recommendation.action = action
                   /\ fusion.out.result.recommendation.source = "fallback"
            /\ (technicals.current_price = 105 /\ technicals.sma_200 = 95
                    /\ score = Frac(1, 2)) => action = "buy"

C24_Witness ==
    /\ Analysed /\ fusion.answer = "503"
    /\ fusion.out.technicals.current_price = 105 /\ fusion.out.technicals.sma_200 = 95
    /\ fusion.out.sentiment.score = Frac(1, 2)
    /\ ~IsError(fusion.out.result)
    /\ fusion.out.result.recommendation.action = "buy"

C24_WitnessSell ==
    /\ Analysed /\ fusion.answer = "raises"
    /\ fusion.out.technicals.current_price < fusion.out.technicals.sma_200
    /\ FracLess(fusion.out.sentiment.score, Frac(0 - 3, 10))
    /\ ~IsError(fusion.out.result)
    /\ fusion.out.result.recommendation.action = "sell"

\* C25: for every snapshot with current price > 0 full_analysis returns a
\* recommendation, not an error result, with stop_loss = SMA200 x 0.95,
\* take_profit = SMA50 x 1.05 and risk_reward_ratio = (take_profit - price) /
\* (price - stop_loss); price 105, SMA50 100 and SMA200 95 give stop_loss
\* 90.25 and take_profit 105.0.
C25_RiskMetrics ==
    (Returned /\ fusion.out.stage # "rejected" /\ fusion.out.technicals.current_price > 0) =>
        LET technicals == fusion.out.technicals
            result == fusion.out.result
            price == technicals.current_price * 100
        IN  /\ ~IsError(result)
            /\ result.risk_metrics.stop_loss = technicals.sma_200 * 95
            /\ result.risk_metrics.take_profit = technicals.sma_50 * 105
            /\ result.risk_metrics.risk_reward_ratio.num
                    * (price - result.risk_metrics.stop_loss)
                 = (result.risk_metrics.take_profit - price)
                    * result.risk_metrics.risk_reward_ratio.den
            /\ (technicals.current_price = 105 /\ technicals.sma_50 = 100
                    /\ technicals.sma_200 = 95) =>
                   /\ result.risk_metrics.stop_loss = 9025
                   /\ result.risk_metrics.take_profit = 10500

\* C30: an article that _analyze_sentiment skips (bad publish date, unknown
\* label) adds nothing to the score, the distribution, the source weights or
\* the aggregate confidence: the aggregate is the one of the other articles
\* alone, and the distribution counts sum to the number of scored values.
C30_SkippedLeaveNoTrace ==
    Analysed =>
        LET sentiment == fusion.out.sentiment
            counts == sentiment.sentiment_distribution
            kept == SelectSeq(fusion.out.articles, Usable)
        IN  /\ sentiment = _analyze_sentiment(kept, fusion.out.technicals.market_regime)
            /\ counts.positive + counts.neutral + counts.negative = Len(sentiment.scores)

\* ------------------------------------------------------------------------
\* Ingestion: what is stored
\* ------------------------------------------------------------------------

\* C29: the sentiment label and the confidence held in an ingested article's
\* record are the label and the confidence the scorer returned for its title
\* and summary, and the stored confidence lies in [0, 1].
C29_StoredEnrichment ==
    \A row \in Rows(store) :
        LET result == analyze_sentiment(row.raw_data, row.title, TRUE)
        IN  /\ row.sentiment = LabelLower(result.label)
            /\ row.confidence = result.score
            /\ row.confidence >= 0 /\ row.confidence <= 100

\* the execution fetched articles from a provider and went through them
ReachedProcessing(r) ==
    /\ r.pc = "done" /\ ~r.cacheHit
    /\ r.answers # << >> /\ r.answers[Len(r.answers)] = "articles"

\* the keys of the articles of a payload that phase 2 writes
WrittenKeys(payload) ==
    LET batch == deduped_articles(payload)
    IN  {ArticleHash(batch[i]) : i \in {j \in 1..Len(batch) : batch[j].summary # NULL}}

\* worker w creates or updates a row in this step
WritesRow(w) == run[w].pc = "write" /\ run'[w].pc # "write"

C26_OneRecord ==
    LET r1 == run["w1"]
        r2 == run["w2"]
        keys == WrittenKeys(PayloadOf(LastProvider(r1)))
    IN  (/\ ReachedProcessing(r1) /\ ReachedProcessing(r2)
         /\ ~r1.prev.ingested /\ ~r2.prev.ingested
         /\ r1.symbol = r2.symbol /\ LastProvider(r1) = LastProvider(r2)) =>
            /\ Ingested(r1) /\ Ingested(r2)
            /\ \A k \in keys :
                   /\ Cardinality(Matching(store, k, r1.symbol)) = 1
                   /\ \A row \in Matching(store, k, r1.symbol) : CopiesIn(row, store) = 1
            /\ r1.new + r1.dup = Cardinality(keys)
            /\ r2.new + r2.dup = Cardinality(keys)
            /\ r1.new + r2.new = Cardinality(keys)
            /\ r1.dup + r2.dup = Cardinality(keys)

C26_WriterWins ==
    \A w \in Workers :
        WritesRow(w) =>
            LET article == Head(run[w].batch)
            IN  \E row \in Matching(store', ArticleHash(article), run[w].symbol) :
                    /\ row.sentiment = LabelLower(run[w].scored.label)
                    /\ row.sentiment_score = run[w].scored.score
                    /\ row.raw_data = article

\* C26: when two runs for one symbol, the only ones so far to get that far,
\* process the same articles at once, then under every interleaving one record per (fingerprint, symbol) exists
\* afterwards, each article is counted as new by exactly one run and as a
\* duplicate by the other, neither run fails, and each write leaves the
\* writer's enrichment in the record, so the last writer's stays.
C26_ConcurrentIngestion == [](C26_OneRecord) /\ [][C26_WriterWins]_vars

\* both runs looked for the row before either had written it, and scored the
\* article differently; the record holds what the second writer scored
C26_Witness ==
    LET r1 == run["w1"]
        r2 == run["w2"]
    IN  /\ Ingested(r1) /\ Ingested(r2) /\ r1.symbol = r2.symbol
        /\ r1.wrote = 1 /\ r2.wrote = 1 /\ r1.enriched = 1 /\ r2.enriched = 1
        /\ ~r1.seen /\ ~r2.seen
        /\ r1.new = 1 /\ r2.dup = 1 /\ r1.dup = 0 /\ r2.new = 0
        /\ r1.scored # r2.scored
        /\ \E row \in Rows(store) : row.sentiment_score = r2.scored.score
                                    /\ row.sentiment = LabelLower(r2.scored.label)

\* C27: the records the store gains during a run are as many as the run
\* reports as new_articles, one for each key of the batch that had no record
\* before; an article is reported as a duplicate only if a record with its
\* key existed before it was written. Said of each iteration of a run.
C27_CountsMatchStore ==
    [][\A w \in SeqWorkers :
          Processes(w) =>
              LET r == run[w]
                  existed == Stored(Head(r.batch), r.symbol)
              IN  /\ BagCardinality(store') - BagCardinality(store) = run'[w].new - r.new
                  /\ run'[w].new = r.new + 1 <=> ~existed
                  /\ run'[w].dup = r.dup + 1 => existed]_vars

\* C28: batch scoring terminates. Every analyze_batch call that enters its
\* chunk loop returns a result list, whatever the model does at each
\* attempt, an out-of-memory error at every attempt included; on the way the
\* batch size only ever halves and never drops below 1.
C28_ShrinkOnly ==
    /\ scorer'.batch_size >= 1
    /\ \/ scorer'.batch_size = scorer.batch_size
       \/ /\ scorer'.batch_size = (IF scorer.batch_size \div 2 > 1
                                    THEN scorer.batch_size \div 2 ELSE 1)
          /\ scorer'.call.ooms = scorer.call.ooms + 1

C28_BatchTerminates ==
    /\ [][C28_ShrinkOnly]_vars
    /\ (scorer.call.pc = "batch") ~>
           (scorer.call.pc = "idle" /\ ~scorer.call.raised
              /\ Len(scorer.call.results) = Len(scorer.call.texts))

====
